---------------------------- MODULE Spec2Model ----------------------------
(***************************************************************************)
(* The pull-request dashboard of copilot-tower: the PullRequest model, the *)
(* sort of displayPullRequests, and one refresh cycle of GitHubPRDashboard *)
(* with its per-row CI enrichment (loadCIStatusForPR / fetchFailedChecks). *)
(*                                                                         *)
(* Several specifications share the actions below and differ only in the   *)
(* sets the remote service's answers are drawn from:                       *)
(*   SpecPR      one record, the predicates of class PullRequest           *)
(*   SpecSort    one refresh cycle, batches that differ in the sort keys   *)
(*   SpecChecks  one refresh cycle, one failing row, all check-run lists   *)
(*   Spec        one refresh cycle, batches that differ in the CI data     *)
(*   SpecOrgs    the organization list and its cache                       *)
(*   SpecButtons the action buttons of a row and their remote commands     *)
(*   SpecQuota   the rate-limit display and its clock                      *)
(*   SpecCycles  overlapping refresh cycles started by the page listeners  *)
(*   SpecRefresh refresh cycles together with the buttons' refresh timers  *)
(*   SpecStale   the row styling, over time zones and instants             *)
(*   SpecTitle   the title cell, over titles with and without a Jira key   *)
(*   SpecAnswered one cycle whose timers fire and whose requests settle    *)
(*   SpecVariants the review predicates of both classes PullRequest        *)
(*   SpecBuckets the sort buckets and the comparators, on three records    *)
(*   SpecToken   validateToken and the sign-in flow that calls it          *)
(*   SpecRerender the Sync command across re-rendered tables               *)
(***************************************************************************)
EXTENDS Integers, Sequences, FiniteSets, TLC

VARIABLES
    pr,             \* SpecPR: the record wrapped by new PullRequest(prData)
    verdict,        \* SpecPR: what the predicates returned for pr
    timeZone,       \* the browser's offset from UTC, in hours
    organization,   \* GitHubPRDashboard.organization
    phase,          \* per refresh cycle: where loadPullRequests stands
    data,           \* per refresh cycle: the edges the bulk query returned
    rows,           \* per refresh cycle: newRows, the <tr> elements it built
    tbody,          \* #prTableBody: the cycles whose rows it holds
    noPrsMessage,   \* #noPrsMessage is displayed
    errorMessage,   \* #errorMessage: the text displayed, Null when hidden
    rateLimit,      \* #rateLimit and #restRateLimit: the quota shown per API kind
    lastCall,       \* the remote call that completed last, and its answer
    now,            \* Date.now(), in hours
    orgsCache,      \* localStorage["github_orgs_cache"]
    orgPending,     \* the /user/orgs requests that are in flight
    orgLast,        \* the last step a getUserOrganizations call took
    refreshTimers,  \* the armed timers that will call loadPullRequests
    url,            \* the org parameter of window.location, Null when absent
    request,        \* per refresh cycle: the organization its bulk query names
    githubToken,    \* localStorage["github_token"], Null when absent
    validation      \* the validateToken call in flight, and its caller

vars == <<pr, verdict, timeZone, organization, phase, data, rows, tbody,
          noPrsMessage, errorMessage, rateLimit, lastCall,
          now, orgsCache, orgPending, orgLast, refreshTimers, url, request,
          githubToken, validation>>

prVars == <<pr, verdict, timeZone>>

dashVars == <<organization, phase, data, rows, tbody, noPrsMessage, errorMessage,
             refreshTimers, url, request>>

quotaVars == <<rateLimit, lastCall>>

orgVars == <<now, orgsCache, orgPending, orgLast>>

authVars == <<githubToken, validation>>

\* JavaScript's null / undefined
Null == "null"

----------------------------------------------------------------------------
(* Bounds *)

\* updatedAt ranges over the days 0..MaxDay
MaxDay == 1
\* longest bulk result of SpecSort
MaxBatch == 3
\* longest bulk result of Spec
MaxRows == 2
\* longest check-run list of SpecChecks
MaxChecks == 2
\* most /user/orgs requests in flight at a time
MaxPending == 2
\* the clock runs over the hours 0..MaxClock
MaxClock == 26
\* most clicks on one button
MaxClicks == 2
\* the refresh cycles of SpecCycles
MaxCycles == 2
\* longest list of workflow runs
MaxRuns == 3
\* longest run of letters, and of digits, in the ticket key of a title
MaxKey == 2
\* longest review list of SpecVariants
MaxReviews == 2
\* most validateToken calls of SpecToken
MaxValidations == 2

----------------------------------------------------------------------------
(* class PullRequest *)

isNotDraft(p) == ~p.isDraft

hasChangesRequested(p) ==
    IF p.reviewDecision = "CHANGES_REQUESTED" THEN TRUE ELSE FALSE

hasBeenApproved(p) ==
    IF hasChangesRequested(p) THEN FALSE ELSE p.reviewDecision = "APPROVED"

waitingForReviewNoDecision(p) ==
    /\ isNotDraft(p)
    /\ ~hasBeenApproved(p)
    /\ ~hasChangesRequested(p)

waitingForReview(p) ==
    /\ isNotDraft(p)
    /\ ~hasBeenApproved(p)
    /\ ~hasChangesRequested(p)
    /\ p.reviewDecision = "REVIEW_REQUIRED"

hasNoConflictsLoose(p) == p.mergeable # "UNKNOWN"

hasNoConflicts(p) == p.mergeable = "MERGEABLE"

isReadyToBeMergedDraftToo(p) == hasBeenApproved(p) /\ hasNoConflicts(p)

isReadyToBeMerged(p) ==
    isNotDraft(p) /\ hasBeenApproved(p) /\ hasNoConflicts(p)

\* a variant that asks only that no change is requested
isBlockedByOtherUnlessChanges(p) ==
    isNotDraft(p) /\ ~hasChangesRequested(p) /\ hasNoConflicts(p)

isBlockedByOther(p) ==
    isNotDraft(p) /\ waitingForReview(p) /\ hasNoConflicts(p)

isBehindMainBranch(p) == p.mergeStateStatus = "BEHIND"

\* class PullRequest of script.js, which derives the review predicates from
\* the review list: reviews and assignees are the nodes of the record
\* (nodes || [] reads a missing list as the empty one)
hasChangesRequested_script(p) ==
    IF \E k \in DOMAIN p.reviews : p.reviews[k].state = "CHANGES_REQUESTED"
    THEN TRUE
    ELSE \E k \in DOMAIN p.reviews : p.reviews[k].state = "COMMENTED"

\* a variant that counts the approval of an assignee
hasBeenApproved_scriptSelfApproval(p) ==
    /\ \E k \in DOMAIN p.reviews : p.reviews[k].state = "APPROVED"
    /\ ~hasChangesRequested_script(p)

hasBeenApproved_script(p) ==
    /\ \E k \in DOMAIN p.reviews :
          /\ p.reviews[k].state = "APPROVED"
          /\ ~\E a \in DOMAIN p.assignees : p.assignees[a] = p.reviews[k].author
    /\ ~hasChangesRequested_script(p)

waitingForReview_script(p) ==
    /\ isNotDraft(p)
    /\ ~hasBeenApproved_script(p)
    /\ ~hasChangesRequested_script(p)

isReadyToBeMerged_script(p) ==
    isNotDraft(p) /\ hasBeenApproved_script(p) /\ hasNoConflicts(p)

isBlockedByOther_script(p) ==
    isNotDraft(p) /\ waitingForReview_script(p) /\ hasNoConflicts(p)

\* commits.nodes is a list of at most one commit (commits(last: 1)), or null
\* (nodesIsNull); reading .length of null throws a TypeError
commitsThrows(p) == p.commits.nodesIsNull

latestCommitSha(p) ==
    IF Len(p.commits.nodes) > 0 THEN p.commits.nodes[1].oid ELSE Null

\* the state of commit.statusCheckRollup, Null when there is no rollup
getStatusCheckRollup(p) ==
    IF Len(p.commits.nodes) > 0 THEN p.commits.nodes[1].rollupState ELSE Null

\* new Date(updatedAt): an ISO-8601 instant as a number (here: in hours,
\* hour 0 being 1970-01-31T00:00Z)
DateParse(ts) == ts.day * 24 + ts.hour

\* the days of the months of 1970
MonthDays == <<31, 28, 31, 30, 31, 30, 31, 31, 30, 31, 30, 31>>

\* the month and the day of the month of day doy of the year, from month m on
RECURSIVE monthAndDate(_, _)
monthAndDate(doy, m) ==
    IF doy <= MonthDays[m] THEN [month |-> m, date |-> doy]
    ELSE monthAndDate(doy - MonthDays[m], m + 1)

\* Date.prototype.toDateString: weekday, month, day and year of the instant
\* in the local time zone (weekday 0 is Sunday; 1970-01-01 was a Thursday)
toDateString(instant) ==
    LET doy == 31 + ((instant + timeZone) \div 24)
    IN  [weekday |-> (doy + 3) % 7,
         month |-> monthAndDate(doy, 1).month,
         date |-> monthAndDate(doy, 1).date,
         year |-> 1970]

\* a variant that asks whether a day's worth of hours has passed
isStaleElapsed(p) == now - DateParse(p.updatedAt) >= 24

isStale(p) == toDateString(DateParse(p.updatedAt)) # toDateString(now)

\* a title is a sequence of characters; [A-Z], \d and \s over the
\* characters that titles are made of
UpperCase == {"A", "Z"}
Digits == {"1", "9"}
Whitespace == {" ", "\t"}

\* the length of the longest run of characters of class that starts at
\* position i of s: what class+ and class* consume
RECURSIVE runLength(_, _, _)
runLength(s, i, class) ==
    IF i <= Len(s) /\ s[i] \in class THEN 1 + runLength(s, i + 1, class) ELSE 0

\* a variant of the pattern with the flag i: [A-Z] takes lower case as well
jiraMatchIgnoreCase(title) ==
    LET nl == runLength(title, 2, UpperCase \cup {"a"})
        nd == runLength(title, 3 + nl, Digits)
    IN  IF /\ Len(title) >= 3 + nl + nd
           /\ title[1] = "["
           /\ nl >= 1
           /\ title[2 + nl] = "-"
           /\ nd >= 1
           /\ title[3 + nl + nd] = "]"
        THEN [matched |-> TRUE, key |-> SubSeq(title, 2, 2 + nl + nd),
              end |-> 3 + nl + nd]
        ELSE [matched |-> FALSE]

\* title.match(/^\[([A-Z]+-\d+)\]/): the group and where the match ends
jiraMatch(title) ==
    LET nl == runLength(title, 2, UpperCase)
        nd == runLength(title, 3 + nl, Digits)
    IN  IF /\ Len(title) >= 3 + nl + nd
           /\ title[1] = "["
           /\ nl >= 1
           /\ title[2 + nl] = "-"
           /\ nd >= 1
           /\ title[3 + nl + nd] = "]"
        THEN [matched |-> TRUE, key |-> SubSeq(title, 2, 2 + nl + nd),
              end |-> 3 + nl + nd]
        ELSE [matched |-> FALSE]

\* the key, or null
getJiraKey(p) ==
    IF jiraMatch(p.title).matched
    THEN [isNull |-> FALSE, key |-> jiraMatch(p.title).key]
    ELSE [isNull |-> TRUE]

\* title.replace(/^\[([A-Z]+-\d+)\]\s*/, "")
getTitleWithoutJira(p) ==
    LET m == jiraMatch(p.title)
    IN  IF m.matched
        THEN SubSeq(p.title, m.end + 1 + runLength(p.title, m.end + 1, Whitespace),
                    Len(p.title))
        ELSE p.title

\* createTitleCell: the link to the ticket, when there is a key, and the
\* text of the link to the pull request
createTitleCell(p) ==
    IF ~getJiraKey(p).isNull
    THEN [jiraLink |-> getJiraKey(p), text |-> getTitleWithoutJira(p)]
    ELSE [jiraLink |-> getJiraKey(p), text |-> p.title]

\* applyRowStyling: the class createPRRow gives the row
applyRowStyling(p) ==
    IF isBlockedByOther(p) THEN {"blocked-by-other-pr"}
    ELSE IF isReadyToBeMerged(p) THEN {"ready-to-be-merged"}
    ELSE IF isStale(p) THEN {"stale-pr"}
    ELSE {}


----------------------------------------------------------------------------
(* GitHubPRDashboard.displayPullRequests: the sort *)

\* the comparator handed to pullRequests.sort: negative when a goes first
comparePRsNewestFirst(a, b) ==
    IF isReadyToBeMerged(a) /\ ~isReadyToBeMerged(b) THEN -1
    ELSE IF ~isReadyToBeMerged(a) /\ isReadyToBeMerged(b) THEN 1
    ELSE IF isBlockedByOther(a) /\ ~isBlockedByOther(b) THEN 1
    ELSE IF ~isBlockedByOther(a) /\ isBlockedByOther(b) THEN -1
    ELSE DateParse(b.updatedAt) - DateParse(a.updatedAt)

comparePRs(a, b) ==
    IF isReadyToBeMerged(a) /\ ~isReadyToBeMerged(b) THEN -1
    ELSE IF ~isReadyToBeMerged(a) /\ isReadyToBeMerged(b) THEN 1
    ELSE IF isBlockedByOther(a) /\ ~isBlockedByOther(b) THEN 1
    ELSE IF ~isBlockedByOther(a) /\ isBlockedByOther(b) THEN -1
    ELSE DateParse(a.updatedAt) - DateParse(b.updatedAt)

\* the comparator of script.js: the same, over the predicates of its class
comparePRs_script(a, b) ==
    IF isReadyToBeMerged_script(a) /\ ~isReadyToBeMerged_script(b) THEN -1
    ELSE IF ~isReadyToBeMerged_script(a) /\ isReadyToBeMerged_script(b) THEN 1
    ELSE IF isBlockedByOther_script(a) /\ ~isBlockedByOther_script(b) THEN 1
    ELSE IF ~isBlockedByOther_script(a) /\ isBlockedByOther_script(b) THEN -1
    ELSE DateParse(a.updatedAt) - DateParse(b.updatedAt)

\* Array.prototype.sort is stable: an element moves left only past the
\* elements the comparator puts strictly after it
RECURSIVE insertUnstable(_, _)
insertUnstable(s, x) ==
    IF s = <<>> THEN <<x>>
    ELSE IF comparePRs(x, s[Len(s)]) <= 0
         THEN Append(insertUnstable(SubSeq(s, 1, Len(s) - 1), x), s[Len(s)])
         ELSE Append(s, x)

RECURSIVE insertSorted(_, _)
insertSorted(s, x) ==
    IF s = <<>> THEN <<x>>
    ELSE IF comparePRs(x, s[Len(s)]) < 0
         THEN Append(insertSorted(SubSeq(s, 1, Len(s) - 1), x), s[Len(s)])
         ELSE Append(s, x)

RECURSIVE sortPullRequests(_)
sortPullRequests(s) ==
    IF s = <<>> THEN <<>>
    ELSE insertSorted(sortPullRequests(SubSeq(s, 1, Len(s) - 1)), s[Len(s)])

----------------------------------------------------------------------------
(* GitHubPRDashboard: rows and their cells *)

\* a variant of createPRRow whose actions cell offers at once what the pull
\* request itself calls for
createPRRowWithActions(p) ==
    [pr |-> p,
     ciText |-> "Loading...", ciClass |-> "neutral", failedChecks |-> <<>>,
     actions |-> (IF p.isDraft THEN {"convert-draft"} ELSE {})
                    \cup (IF isBehindMainBranch(p) THEN {"sync"} ELSE {}),
     buttons |-> <<>>,
     pc |-> "new", lookups |-> 0, response |-> [kind |-> "none"],
     caught |-> FALSE]

\* createPRRow: the CI cell of createCICell, the empty cell of
\* createActionsCell; pc is where loadCIStatusForPR stands for the row,
\* lookups counts the check-run requests sent for it, response is the
\* answer its request got and caught whether its catch block ran
createPRRow(p) ==
    [pr |-> p,
     ciText |-> "Loading...", ciClass |-> "neutral", failedChecks |-> <<>>,
     actions |-> {}, buttons |-> <<>>,
     pc |-> "new", lookups |-> 0, response |-> [kind |-> "none"],
     caught |-> FALSE]

ActionButtons == {"convert-draft", "sync", "rerun"}

\* a variant that offers one button at most
updateActionsCellExclusive(p, ciClass, failedChecks) ==
    IF p.isDraft THEN {"convert-draft"}
    ELSE IF isBehindMainBranch(p) THEN {"sync"}
    ELSE IF ciClass = "error" /\ Len(failedChecks) > 0 THEN {"rerun"}
    ELSE {}

\* updateActionsCell: the buttons offered for pr under ciStatus
updateActionsCell(p, ciClass, failedChecks) ==
    (IF p.isDraft THEN {"convert-draft"} ELSE {})
    \cup (IF isBehindMainBranch(p) THEN {"sync"} ELSE {})
    \cup (IF ciClass = "error" /\ Len(failedChecks) > 0 THEN {"rerun"} ELSE {})

\* the text of a button: a label, and the counts that some labels carry
Text(label) == [label |-> label, k |-> 0, n |-> 0]

ButtonLabel(a) ==
    IF a = "convert-draft" THEN Text("Draft => Open")
    ELSE IF a = "sync" THEN Text("Sync with base")
    ELSE Text("Re-run")

NoData == [set |-> FALSE]

\* a <button> as actions.join(" ") creates it: enabled, no class, no
\* data-original-text; pc is where the command of its last click stands,
\* timer the armed reset, closure the originalText that handleRerunFailedJobs
\* keeps, calls and handlers what the last click invoked, listed the
\* workflow runs the last re-run command was given, runs the failed ones
\* among them and results how their re-runs ended
createButton(a) ==
    [text |-> ButtonLabel(a), disabled |-> FALSE, classes |-> {},
     dataset |-> NoData, closure |-> ButtonLabel(a),
     pc |-> "idle", timer |-> "none", clicks |-> 0,
     calls |-> 0, handlers |-> {},
     listed |-> <<>>, runs |-> <<>>, results |-> <<>>]

\* updateCICell(row, ciStatus, pr): the CI cell, then the actions cell
updateCICell(row, text, class, failedChecks) ==
    [row EXCEPT !.ciText = text, !.ciClass = class,
                !.failedChecks = failedChecks,
                !.actions = updateActionsCell(row.pr, class, failedChecks),
                !.buttons = [a \in updateActionsCell(row.pr, class, failedChecks)
                                |-> createButton(a)],
                !.pc = "done"]

----------------------------------------------------------------------------
(* GitHubAPI.fetchFailedChecks *)

\* checkName.replace(/^rails-ci\s\/ /, ""): a name is a sequence of pieces
stripHyperionPrefix(name) ==
    IF /\ Len(name) >= 4
       /\ name[1] = "rails-ci"
       /\ name[2] \in Whitespace
       /\ name[3] = "/"
       /\ name[4] = " "
    THEN SubSeq(name, 5, Len(name))
    ELSE name

\* checkRun.html_url || checkRun.details_url || "#"
checkUrl(run) ==
    IF run.html_url # Null THEN run.html_url
    ELSE IF run.details_url # Null THEN run.details_url
    ELSE "#"

\* data.check_runs.forEach: push the runs whose conclusion is "failure"
RECURSIVE collectFailedChecksAll(_)
collectFailedChecksAll(runs) ==
    IF runs = <<>> THEN <<>>
    ELSE LET run == runs[Len(runs)]
             before == collectFailedChecksAll(SubSeq(runs, 1, Len(runs) - 1))
         IN  IF run.conclusion # "success"
             THEN Append(before, [name |-> stripHyperionPrefix(run.name),
                                  url |-> checkUrl(run)])
             ELSE before

RECURSIVE collectFailedChecks(_)
collectFailedChecks(runs) ==
    IF runs = <<>> THEN <<>>
    ELSE LET run == runs[Len(runs)]
             before == collectFailedChecks(SubSeq(runs, 1, Len(runs) - 1))
         IN  IF run.conclusion = "failure"
             THEN Append(before, [name |-> stripHyperionPrefix(run.name),
                                  url |-> checkUrl(run)])
             ELSE before

\* what fetchFailedChecks resolves to for an answer of the remote service:
\* query() throws on a network error and on a non-2xx status, and the
\* catch block turns both into []
\* (kind "norun" is a 2xx answer whose body has no check_runs)
fetchFailedChecks(resp) ==
    IF resp.kind = "ok" THEN collectFailedChecks(resp.check_runs)
    ELSE <<>>

----------------------------------------------------------------------------
(* GitHubPRDashboard.loadCIStatusForPR *)

\* the badge shown for a FAILURE / ERROR rollup
failureText(state) == IF state = "FAILURE" THEN "Failed" ELSE "boom Error"

\* a variant that asks for the check runs of every commit that has a rollup
startCIAlwaysFetch(row) ==
    IF commitsThrows(row.pr)
    THEN [updateCICell(row, "Error", "error", <<>>) EXCEPT !.caught = TRUE]
    ELSE IF latestCommitSha(row.pr) = Null
    THEN updateCICell(row, "sha latest commit not found", "neutral", <<>>)
    ELSE IF getStatusCheckRollup(row.pr) = Null
    THEN updateCICell(row, "No CI", "neutral", <<>>)
    ELSE [row EXCEPT !.pc = "awaiting", !.lookups = @ + 1]

\* a variant whose switch has a default case that reports an error
startCIDefaultError(row) ==
    IF commitsThrows(row.pr)
    THEN [updateCICell(row, "Error", "error", <<>>) EXCEPT !.caught = TRUE]
    ELSE IF latestCommitSha(row.pr) = Null
    THEN updateCICell(row, "sha latest commit not found", "neutral", <<>>)
    ELSE LET state == getStatusCheckRollup(row.pr)
         IN  IF state = "SUCCESS"
             THEN updateCICell(row, "Passed", "success", <<>>)
             ELSE IF state \in {"FAILURE", "ERROR"}
             THEN [row EXCEPT !.pc = "awaiting", !.lookups = @ + 1]
             ELSE IF state = "PENDING"
             THEN updateCICell(row, "Running", "warning", <<>>)
             ELSE updateCICell(row, "boom Error", "error", <<>>)

\* loadCIStatusForPR up to its first await: everything but the FAILURE / ERROR
\* case ends here, that case sends the check-run request and waits
startCI(row) ==
    IF commitsThrows(row.pr)
    THEN [updateCICell(row, "Error", "error", <<>>) EXCEPT !.caught = TRUE]
    ELSE IF latestCommitSha(row.pr) = Null
    THEN updateCICell(row, "sha latest commit not found", "neutral", <<>>)
    ELSE LET state == getStatusCheckRollup(row.pr)
         IN  IF state = "SUCCESS"
             THEN updateCICell(row, "Passed", "success", <<>>)
             ELSE IF state \in {"FAILURE", "ERROR"}
             THEN [row EXCEPT !.pc = "awaiting", !.lookups = @ + 1]
             ELSE IF state = "PENDING"
             THEN updateCICell(row, "Running", "warning", <<>>)
             ELSE updateCICell(row, "No CI", "neutral", <<>>)

\* loadCIStatusForPR after the await, for the answer resp
finishCI(row, resp) ==
    [updateCICell(row, failureText(getStatusCheckRollup(row.pr)), "error",
                  fetchFailedChecks(resp))
        EXCEPT !.response = resp]

\* a forEach whose callback lets the TypeError escape: the rows after the
\* throwing one are never visited
fanOutAborting(rs) ==
    [i \in DOMAIN rs |->
        IF \E j \in 1..i : commitsThrows(rs[j].pr) THEN rs[i] ELSE startCI(rs[i])]

\* newRows.forEach(({pr, row, index}) => this.loadCIStatusForPR(pr, row, index))
fanOut(rs) == [i \in DOMAIN rs |-> startCI(rs[i])]

----------------------------------------------------------------------------
(* GitHubAPI.query and the quota shown by handleRateLimitInfo *)

\* isLow: remaining < 100
LowThreshold == 100

\* headers.get(name): null when the header is absent, else its text, a
\* string of decimal digits (<<>> is the empty string)
Absent == [present |-> FALSE, text |-> <<>>]
Header(digits) == [present |-> TRUE, text |-> digits]
NoHeaders == [remaining |-> Absent, limit |-> Absent, reset |-> Absent]

\* !value for null and for the empty string
falsy(h) == ~h.present \/ h.text = <<>>

\* parseInt of a string of decimal digits (the same number as its coercion
\* by the operator <)
RECURSIVE parseInt(_)
parseInt(text) ==
    IF text = <<>> THEN 0
    ELSE 10 * parseInt(SubSeq(text, 1, Len(text) - 1)) + text[Len(text)]

NoInfo == [isNull |-> TRUE]

extractRateLimitInfo(headers, type) ==
    IF falsy(headers.remaining) \/ falsy(headers.limit) THEN NoInfo
    ELSE [isNull |-> FALSE,
          type |-> type,
          remaining |-> parseInt(headers.remaining.text),
          limit |-> parseInt(headers.limit.text),
          resetString |-> IF falsy(headers.reset) THEN <<>>
                          ELSE <<"resets", parseInt(headers.reset.text) * 1000>>,
          isLow |-> parseInt(headers.remaining.text) < LowThreshold]

\* the text and class handleRateLimitInfo gives the element of the API kind
quotaElement(info) ==
    [shown |-> TRUE,
     prefix |-> IF info.type = "graphql" THEN "GraphQL" ELSE "REST",
     remaining |-> info.remaining, limit |-> info.limit,
     resetString |-> info.resetString,
     className |-> IF info.isLow THEN "rate-limit-low" ELSE "rate-limit-ok"]

handleRateLimitInfo(shown, info) ==
    IF info.isNull THEN shown
    ELSE [shown EXCEPT ![IF info.type = "graphql" THEN "graphql" ELSE "rest"] =
              quotaElement(info)]

\* query(endpoint, options) settles: a request of API kind type made by the
\* method api is answered with status and headers (no answer at all for
\* status "network", where fetch rejects); the rate-limit callback, when the
\* caller passed one, runs before the status is looked at
queryCompleted(api, type, status, headers, hasCallback) ==
    /\ lastCall' = [api |-> api, type |-> type, status |-> status,
                    headers |-> IF status = "network" THEN NoHeaders ELSE headers]
    /\ rateLimit' = IF status # "network" /\ hasCallback
                    THEN handleRateLimitInfo(rateLimit,
                                             extractRateLimitInfo(headers, type))
                    ELSE rateLimit

----------------------------------------------------------------------------
(* GitHubAPI.getUserOrganizations and its cache *)

\* expiresAt: Date.now() + 24 * 60 * 60 * 1000, in hours
OrgsTTL == 24

\* JSON.stringify / JSON.parse of the cache entry
JSONstringify(value) == [json |-> value]
JSONparse(text) == text.json

NoEntry == [present |-> FALSE]

\* localStorage.setItem("github_orgs_cache", JSON.stringify(cacheData))
cacheEntry(res, at) ==
    [present |-> TRUE,
     text |-> JSONstringify([organizations |-> res, cachedAt |-> at,
                             expiresAt |-> at + OrgsTTL])]

\* the cache is there and now < data.expiresAt
cacheIsFresh ==
    /\ orgsCache.present
    /\ now < JSONparse(orgsCache.text).expiresAt

\* a variant that asks the remote service whatever the cache holds
getUserOrganizationsAlwaysFetch ==
    /\ orgPending < MaxPending
    /\ orgsCache' = NoEntry
    /\ orgPending' = orgPending + 1
    /\ orgLast' = [kind |-> "miss", at |-> now, found |-> orgsCache.present]

\* a variant that serves the entry it finds, fresh or not
getUserOrganizationsIgnoringExpiry ==
    IF orgsCache.present
    THEN /\ orgLast' = [kind |-> "hit", at |-> now,
                        organizations |-> JSONparse(orgsCache.text).organizations]
         /\ UNCHANGED <<orgsCache, orgPending>>
    ELSE /\ orgPending < MaxPending
         /\ orgsCache' = NoEntry
         /\ orgPending' = orgPending + 1
         /\ orgLast' = [kind |-> "miss", at |-> now, found |-> orgsCache.present]

\* getUserOrganizations up to its await: a fresh entry is returned as it is,
\* anything else is removed and the list is requested
\* (data.organizations, an array, is always truthy; the number of requests in
\* flight is capped by MaxPending)
getUserOrganizations ==
    IF cacheIsFresh
    THEN /\ orgLast' = [kind |-> "hit", at |-> now,
                        organizations |-> JSONparse(orgsCache.text).organizations]
         /\ UNCHANGED <<orgsCache, orgPending>>
    ELSE /\ orgPending < MaxPending
         /\ orgsCache' = NoEntry
         /\ orgPending' = orgPending + 1
         /\ orgLast' = [kind |-> "miss", at |-> now, found |-> orgsCache.present]

\* a variant whose catch block caches the empty list that it falls back to
organizationsAnsweredCachingEmpty(status, res, headers) ==
    /\ orgPending > 0
    /\ orgPending' = orgPending - 1
    /\ queryCompleted("getUserOrganizations", "rest", status, headers, FALSE)
    /\ IF status = "ok"
       THEN /\ orgsCache' = cacheEntry(res, now)
            /\ orgLast' = [kind |-> "fetched", at |-> now, organizations |-> res]
       ELSE /\ orgLast' = [kind |-> "failed", at |-> now]
            /\ orgsCache' = cacheEntry(<<>>, now)
    /\ UNCHANGED <<prVars, authVars, dashVars, now>>

\* the /user/orgs request of a getUserOrganizations call is answered: a list
\* is cached for 24 hours and returned, anything else is rethrown as
\* "Failed to fetch organizations"; the request passes no rate-limit callback
organizationsAnswered(status, res, headers) ==
    /\ orgPending > 0
    /\ orgPending' = orgPending - 1
    /\ queryCompleted("getUserOrganizations", "rest", status, headers, FALSE)
    /\ IF status = "ok"
       THEN /\ orgsCache' = cacheEntry(res, now)
            /\ orgLast' = [kind |-> "fetched", at |-> now, organizations |-> res]
       ELSE /\ orgLast' = [kind |-> "failed", at |-> now]
            /\ UNCHANGED orgsCache
    /\ UNCHANGED <<prVars, authVars, dashVars, now>>

\* getUserOrganizations called by the organization step or the sign-in flow
callGetUserOrganizations ==
    /\ getUserOrganizations
    /\ UNCHANGED <<prVars, authVars, dashVars, quotaVars, now>>

\* an hour passes
tick ==
    /\ now < MaxClock
    /\ now' = now + 1
    /\ UNCHANGED <<prVars, authVars, dashVars, quotaVars, orgsCache, orgPending, orgLast>>

----------------------------------------------------------------------------
(* GitHubAPI.validateToken and the sign-in flow of GitHubAuth *)

\* validateToken(token) up to the await of query("/user"): the candidate is
\* token || the stored token; with none it returns false at once, else the
\* try block keeps the stored token in originalToken and stores the
\* candidate, which is the token that query() reads
validateToken(caller, token) ==
    /\ validation.pc = "idle"
    /\ validation.calls < MaxValidations
    /\ LET tokenToValidate == IF token # Null THEN token ELSE githubToken
           call == [validation EXCEPT !.calls = @ + 1, !.caller = caller,
                                      !.tokenToValidate = tokenToValidate,
                                      !.originalToken = githubToken,
                                      !.authError = Null]
       IN  IF tokenToValidate = Null
           THEN /\ validation' = [call EXCEPT !.pc = "returned", !.result = FALSE]
                /\ UNCHANGED githubToken
           ELSE /\ validation' = [call EXCEPT !.pc = "awaiting"]
                /\ githubToken' = tokenToValidate
    /\ UNCHANGED <<prVars, dashVars, quotaVars, orgVars>>

\* query("/user") is answered. On success the try block goes on: it stores
\* originalToken again, or removes the entry when there was none, and
\* returns true. On failure the catch block reads the store again into an
\* originalToken of its own, stores that one back when it is not the
\* candidate, and returns false
userAnswered(status, headers) ==
    /\ validation.pc = "awaiting"
    /\ queryCompleted("validateToken", "rest", status, headers, FALSE)
    /\ IF status = "ok"
       THEN /\ githubToken' = IF validation.originalToken # Null
                              THEN validation.originalToken
                              ELSE Null
            /\ validation' = [validation EXCEPT !.pc = "returned", !.result = TRUE]
       ELSE /\ LET originalToken == githubToken
               IN  githubToken' =
                      IF originalToken # Null
                           /\ originalToken # validation.tokenToValidate
                      THEN originalToken
                      ELSE githubToken
            /\ validation' = [validation EXCEPT !.pc = "returned", !.result = FALSE]
    /\ UNCHANGED <<prVars, dashVars, orgVars>>

\* auth.js, handleTokenSubmit up to its await, for the token typed in
handleTokenSubmit(token) ==
    /\ token # Null
    /\ validateToken("handleTokenSubmit", token)

\* auth.js, handleTokenSubmit after its await: a valid token is stored, an
\* invalid one is reported
handleTokenSubmitResumes ==
    /\ validation.pc = "returned"
    /\ validation.caller = "handleTokenSubmit"
    /\ IF validation.result
       THEN /\ githubToken' = validation.tokenToValidate
            /\ validation' = [validation EXCEPT !.pc = "idle"]
       ELSE /\ validation' =
                  [validation EXCEPT
                     !.pc = "idle",
                     !.authError = "Invalid GitHub token. Please check your token and try again."]
            /\ UNCHANGED githubToken
    /\ UNCHANGED <<prVars, dashVars, quotaVars, orgVars>>

\* auth.js, the constructor and initializeAuth when the page loads with a
\* token in the store, up to its await
initializeAuth ==
    /\ githubToken # Null
    /\ validateToken("initializeAuth", githubToken)

\* auth.js, initializeAuth after its await: clearAuth for an invalid token
\* (localStorage.clear() and setOrgInURL(null))
initializeAuthResumes ==
    /\ validation.pc = "returned"
    /\ validation.caller = "initializeAuth"
    /\ validation' = [validation EXCEPT !.pc = "idle"]
    /\ IF validation.result
       THEN UNCHANGED <<githubToken, orgsCache, url>>
       ELSE /\ githubToken' = Null
            /\ orgsCache' = NoEntry
            /\ url' = Null
    /\ UNCHANGED <<prVars, organization, phase, data, rows, tbody, noPrsMessage,
                   errorMessage, refreshTimers, request, quotaVars, now,
                   orgPending, orgLast>>

----------------------------------------------------------------------------
(* GitHubPRDashboard: one refresh cycle c *)

\* the message of the Error thrown by GitHubAPI.query / fetchPullRequests:
\* "auth" is a 401, "http" any other status that is not ok, "graphql" a 200
\* whose body lists errors, "network" a rejected fetch
bulkErrorMessage(err) ==
    IF err = "auth"
    THEN "Invalid or expired GitHub token. Please check your token and try again."
    ELSE IF err = "http" THEN "HTTP 500"
    ELSE IF err = "graphql" THEN "GraphQL errors"
    ELSE "Failed to fetch"

\* a variant that abandons the refresh cycles still in flight
showCancelling(c, org) ==
    /\ phase[c] = "idle"
    /\ organization' = org
    /\ phase' = [d \in DOMAIN phase |->
                    IF d = c THEN "fetching"
                    ELSE IF phase[d] \in {"fetching", "fading"} THEN "cancelled"
                    ELSE phase[d]]
    /\ request' = [request EXCEPT ![c] = org]
    /\ errorMessage' = Null
    /\ noPrsMessage' = FALSE
    /\ getUserOrganizations
    /\ UNCHANGED <<prVars, authVars, refreshTimers, data, rows, tbody, quotaVars, now>>

\* show(org): remember the organization, then loadPullRequests up to the
\* await of the bulk query, which names this.organization, then
\* populateOrgDropdown up to the await of the organization list
\* (show itself leaves the URL alone: the listeners below say what happens
\* to it)
show(c, org) ==
    /\ phase[c] = "idle"
    /\ organization' = org
    /\ IF org = Null
       THEN /\ phase' = [phase EXCEPT ![c] = "skipped"]
            /\ UNCHANGED <<noPrsMessage, errorMessage, request>>
       ELSE /\ phase' = [phase EXCEPT ![c] = "fetching"]
            /\ request' = [request EXCEPT ![c] = org]
            /\ errorMessage' = Null
            /\ noPrsMessage' = FALSE
    /\ getUserOrganizations
    /\ UNCHANGED <<prVars, authVars, refreshTimers, data, rows, tbody, quotaVars, now>>

\* bootstrap.js, DOMContentLoaded, in a browser that holds a token and whose
\* URL names an organization (window.org.selectedOrganization reads the URL)
DOMContentLoaded(c) ==
    /\ \A d \in DOMAIN phase : phase[d] = "idle"
    /\ url # Null
    /\ show(c, url)
    /\ UNCHANGED url

\* a variant of the listener that leaves the URL as it is
organizationChangedKeepsURL(c, orgName) ==
    /\ organization # Null
    /\ show(c, orgName)
    /\ UNCHANGED url

\* bootstrap.js, organizationChanged: the URL takes the organization of the
\* event (loses its parameter for none), then show(orgName)
organizationChanged(c, orgName) ==
    /\ organization # Null
    /\ url' = IF orgName # Null THEN orgName ELSE Null
    /\ show(c, orgName)

\* bootstrap.js, visibilitychange to visible: show for the organization of
\* the URL, nothing when it names none
visibilitychange(c) ==
    /\ organization # Null
    /\ url # Null
    /\ show(c, url)
    /\ UNCHANGED url

\* the 1 s timer of a generic button's onSuccess fires: loadPullRequests up
\* to the await of the bulk query, for the organization of the dashboard
refreshTimerFired(c) ==
    /\ refreshTimers > 0
    /\ phase[c] = "idle"
    /\ refreshTimers' = refreshTimers - 1
    /\ IF organization = Null
       THEN /\ phase' = [phase EXCEPT ![c] = "skipped"]
            /\ UNCHANGED <<noPrsMessage, errorMessage, request>>
       ELSE /\ phase' = [phase EXCEPT ![c] = "fetching"]
            /\ request' = [request EXCEPT ![c] = organization]
            /\ errorMessage' = Null
            /\ noPrsMessage' = FALSE
    /\ UNCHANGED <<prVars, authVars, organization, url, data, rows, tbody, quotaVars, orgVars>>

\* the bulk query resolves with edges: displayPullRequests builds the models,
\* shows the no-data message for none, else sorts them, builds their rows and
\* arms the timer that will replace the table
fetchPullRequestsOk(c, edges, headers) ==
    /\ phase[c] = "fetching"
    /\ queryCompleted("fetchPullRequests", "graphql", "ok", headers, TRUE)
    /\ data' = [data EXCEPT ![c] = edges]
    /\ IF Len(edges) = 0
       THEN /\ tbody' = {}
            /\ noPrsMessage' = TRUE
            /\ phase' = [phase EXCEPT ![c] = "nodata"]
            /\ UNCHANGED rows
       ELSE /\ rows' = [rows EXCEPT ![c] =
                          [i \in 1..Len(edges) |->
                              createPRRow(sortPullRequests(edges)[i])]]
            /\ phase' = [phase EXCEPT ![c] = "fading"]
            /\ UNCHANGED <<tbody, noPrsMessage>>
    /\ UNCHANGED <<prVars, authVars, refreshTimers, organization, url, request, errorMessage, orgVars>>

\* a variant that sends the bulk query again when it failed
fetchPullRequestsFailRetrying(c, err, headers) ==
    /\ phase[c] = "fetching"
    /\ queryCompleted("fetchPullRequests", "graphql", err, headers, TRUE)
    /\ UNCHANGED <<prVars, authVars, dashVars, orgVars>>

\* a variant whose catch block empties the table
fetchPullRequestsFailClearing(c, err, headers) ==
    /\ phase[c] = "fetching"
    /\ queryCompleted("fetchPullRequests", "graphql", err, headers, TRUE)
    /\ errorMessage' = bulkErrorMessage(err)
    /\ tbody' = {}
    /\ phase' = [phase EXCEPT ![c] = "failed"]
    /\ UNCHANGED <<prVars, authVars, refreshTimers, organization, url, request, data, rows,
                   noPrsMessage, orgVars>>

\* a variant whose catch block renders the empty result as well
fetchPullRequestsFailAsEmpty(c, err, headers) ==
    /\ phase[c] = "fetching"
    /\ queryCompleted("fetchPullRequests", "graphql", err, headers, TRUE)
    /\ errorMessage' = bulkErrorMessage(err)
    /\ tbody' = {}
    /\ noPrsMessage' = TRUE
    /\ phase' = [phase EXCEPT ![c] = "failed"]
    /\ UNCHANGED <<prVars, authVars, refreshTimers, organization, url, request, data, rows, orgVars>>

\* the bulk query rejects: the catch block of loadPullRequests
fetchPullRequestsFail(c, err, headers) ==
    /\ phase[c] = "fetching"
    /\ queryCompleted("fetchPullRequests", "graphql", err, headers, TRUE)
    /\ errorMessage' = bulkErrorMessage(err)
    /\ phase' = [phase EXCEPT ![c] = "failed"]
    /\ UNCHANGED <<prVars, authVars, refreshTimers, organization, url, request, data, rows, tbody, noPrsMessage, orgVars>>

\* a variant that appends the fragment to what the table body holds
replaceTableAppending(c) ==
    /\ phase[c] = "fading"
    /\ tbody' = tbody \cup {c}
    /\ rows' = [rows EXCEPT ![c] = fanOut(rows[c])]
    /\ phase' = [phase EXCEPT ![c] = "shown"]
    /\ UNCHANGED <<prVars, authVars, refreshTimers, organization, url, request, data, noPrsMessage, errorMessage,
                   quotaVars, orgVars>>

\* the 150 ms timer of displayPullRequests: the table body is replaced by
\* the fragment, then every row's loadCIStatusForPR runs to its first await
replaceTable(c) ==
    /\ phase[c] = "fading"
    /\ tbody' = {c}
    /\ rows' = [rows EXCEPT ![c] = fanOut(rows[c])]
    /\ phase' = [phase EXCEPT ![c] = "shown"]
    /\ UNCHANGED <<prVars, authVars, refreshTimers, organization, url, request, data, noPrsMessage, errorMessage,
                   quotaVars, orgVars>>

\* a variant that looks the row up in the table by its index when the answer
\* comes, instead of keeping the <tr> it was called with
checkRunsAnsweredByIndex(c, i, resp, headers) ==
    /\ i \in DOMAIN rows[c]
    /\ rows[c][i].pc = "awaiting"
    /\ queryCompleted("fetchFailedChecks", "rest", resp.kind, headers, TRUE)
    /\ LET shown == { d \in tbody : i \in DOMAIN rows[d] }
           finished == [rows EXCEPT ![c][i].pc = "done", ![c][i].response = resp]
       IN  rows' = [d \in DOMAIN rows |->
                      IF d \in shown
                      THEN [finished[d] EXCEPT ![i] =
                              [finishCI(finished[d][i], resp)
                                 EXCEPT !.pc = finished[d][i].pc,
                                        !.response = finished[d][i].response]]
                      ELSE finished[d]]
    /\ UNCHANGED <<prVars, authVars, refreshTimers, organization, url, request, phase, data, tbody,
                   noPrsMessage, errorMessage, orgVars>>

\* a variant that waits for the answers of all the rows of the batch before
\* it writes any of them (a Promise.all over the enrichments)
checkRunsAnsweredBarrier(c, i, resp, headers) ==
    /\ i \in DOMAIN rows[c]
    /\ rows[c][i].pc = "awaiting"
    /\ queryCompleted("fetchFailedChecks", "rest", resp.kind, headers, TRUE)
    /\ LET held == [rows[c] EXCEPT ![i] = [@ EXCEPT !.pc = "held",
                                                   !.response = resp]]
       IN  rows' = [rows EXCEPT ![c] =
                      IF \E j \in DOMAIN held : held[j].pc = "awaiting"
                      THEN held
                      ELSE [j \in DOMAIN held |->
                              IF held[j].pc = "held"
                              THEN finishCI(held[j], held[j].response)
                              ELSE held[j]]]
    /\ UNCHANGED <<prVars, authVars, refreshTimers, organization, url, request, phase, data, tbody,
                   noPrsMessage, errorMessage, orgVars>>

\* the check-run request of row i is answered with resp
checkRunsAnswered(c, i, resp, headers) ==
    /\ i \in DOMAIN rows[c]
    /\ rows[c][i].pc = "awaiting"
    /\ queryCompleted("fetchFailedChecks", "rest", resp.kind, headers, TRUE)
    /\ rows' = [rows EXCEPT ![c][i] = finishCI(rows[c][i], resp)]
    /\ UNCHANGED <<prVars, authVars, refreshTimers, organization, url, request, phase, data, tbody,
                   noPrsMessage, errorMessage, orgVars>>

----------------------------------------------------------------------------
(* GitHubPRDashboard: the action buttons *)

\* the two remote operations behind the generic buttons: one request each,
\* with the rate-limit callback, that resolves on success and rejects on
\* every failure
markPullRequestReadyForReview(status) ==
    [api |-> "markPullRequestReadyForReview", type |-> "graphql",
     settles |-> IF status = "ok" THEN "resolved" ELSE "rejected"]

updatePullRequestBranch(status) ==
    [api |-> "updatePullRequestBranch", type |-> "rest",
     settles |-> IF status = "ok" THEN "resolved" ELSE "rejected"]

\* actionConfig of handleConvertDraftToOpen and handleSyncWithBaseBranch
actionConfig(a) ==
    IF a = "convert-draft"
    THEN [loadingText |-> Text("Converting..."),
          successText |-> Text("Ready for Review"), errorText |-> Text("Failed")]
    ELSE [loadingText |-> Text("Syncing..."),
          successText |-> Text("Synced"), errorText |-> Text("Failed")]

setButtonLoading(b, loadingText) ==
    [b EXCEPT !.dataset = [set |-> TRUE, text |-> b.text],
              !.text = loadingText,
              !.disabled = TRUE,
              !.classes = @ \cup {"loading"}]

\* setButtonSuccess / setButtonWarning / setButtonError: the text, the class
\* in place of loading, and scheduleButtonReset
setButtonState(b, text, class) ==
    [b EXCEPT !.text = text,
              !.classes = (@ \ {"loading"}) \cup {class},
              !.timer = "resetButton"]

resetButton(b) ==
    [b EXCEPT !.text = IF b.dataset.set THEN b.dataset.text ELSE b.text,
              !.disabled = FALSE,
              !.classes = @ \ {"loading", "success", "warning", "error"},
              !.dataset = NoData]

\* the classes the timers of handleRerunFailedJobs remove
rerunTimerClasses(timer) ==
    IF timer = "rerunNone" THEN {"success"}
    ELSE IF timer = "rerunDone" THEN {"success", "warning"}
    ELSE {"error"}

\* the buttons of row i of cycle c that can be clicked: rendered, enabled
\* (each button is clicked MaxClicks times at most)
Clickable(c, i) ==
    IF c \in tbody /\ i \in DOMAIN rows[c]
    THEN { a \in DOMAIN rows[c][i].buttons :
             /\ ~rows[c][i].buttons[a].disabled
             /\ rows[c][i].buttons[a].clicks < MaxClicks }
    ELSE {}

\* a variant that leaves the button enabled while the command runs
handleActionButtonEnabled(c, i, a) ==
    /\ a \in Clickable(c, i) \cap {"convert-draft", "sync"}
    /\ rows' = [rows EXCEPT ![c][i].buttons[a] =
                  [setButtonLoading(@, actionConfig(a).loadingText)
                      EXCEPT !.disabled = FALSE, !.pc = "inflight",
                             !.clicks = @ + 1,
                             !.calls = 1, !.handlers = {}]]
    /\ UNCHANGED <<prVars, authVars, organization, url, request, phase, data, tbody, noPrsMessage,
                   errorMessage, refreshTimers, quotaVars, orgVars>>

\* a click on "Draft => Open" or "Sync": handleActionButton up to its await,
\* the button shows the loading text and the remote operation is invoked
handleActionButton(c, i, a) ==
    /\ a \in Clickable(c, i) \cap {"convert-draft", "sync"}
    /\ rows' = [rows EXCEPT ![c][i].buttons[a] =
                  [setButtonLoading(@, actionConfig(a).loadingText)
                      EXCEPT !.pc = "inflight", !.clicks = @ + 1,
                             !.calls = 1, !.handlers = {}]]
    /\ UNCHANGED <<prVars, authVars, organization, url, request, phase, data, tbody, noPrsMessage,
                   errorMessage, refreshTimers, quotaVars, orgVars>>

\* the rows of cycle c with a command of pc on button a
InFlight(c, a, pc) ==
    { i \in DOMAIN rows[c] :
        a \in DOMAIN rows[c][i].buttons /\ rows[c][i].buttons[a].pc = pc }

\* the remote operation of a generic button settles: onSuccess shows the
\* success text and arms the refresh, onError shows the error text
actionSettled(c, i, a, status, headers) ==
    /\ a \in {"convert-draft", "sync"}
    /\ i \in InFlight(c, a, "inflight")
    /\ LET op == IF a = "convert-draft"
                 THEN markPullRequestReadyForReview(status)
                 ELSE updatePullRequestBranch(status)
       IN  /\ queryCompleted(op.api, op.type, status, headers, TRUE)
           /\ IF op.settles = "resolved"
              THEN /\ rows' = [rows EXCEPT ![c][i].buttons[a] =
                         [setButtonState(@, actionConfig(a).successText, "success")
                             EXCEPT !.pc = "settled",
                                    !.handlers = @ \cup {"onSuccess"}]]
                   /\ refreshTimers' = refreshTimers + 1
              ELSE /\ rows' = [rows EXCEPT ![c][i].buttons[a] =
                         [setButtonState(@, actionConfig(a).errorText, "error")
                             EXCEPT !.pc = "settled",
                                    !.handlers = @ \cup {"onError"}]]
                   /\ UNCHANGED refreshTimers
    /\ UNCHANGED <<prVars, authVars, organization, url, request, phase, data, tbody, noPrsMessage,
                   errorMessage, orgVars>>

\* a variant of the reset that leaves the button disabled
buttonResetKeepsDisabled(c, i, a) ==
    /\ i \in DOMAIN rows[c]
    /\ a \in DOMAIN rows[c][i].buttons
    /\ rows[c][i].buttons[a].timer # "none"
    /\ rows' = [rows EXCEPT ![c][i].buttons[a] =
                  [@ EXCEPT !.classes = {}, !.pc = "idle", !.timer = "none"]]
    /\ UNCHANGED <<prVars, authVars, organization, url, request, phase, data, tbody, noPrsMessage,
                   errorMessage, refreshTimers, quotaVars, orgVars>>

\* the reset timer of a button fires: resetButton for the generic buttons,
\* the callbacks of handleRerunFailedJobs for "Re-run"
buttonReset(c, i, a) ==
    /\ i \in DOMAIN rows[c]
    /\ a \in DOMAIN rows[c][i].buttons
    /\ rows[c][i].buttons[a].timer # "none"
    /\ LET b == rows[c][i].buttons[a]
       IN  rows' = [rows EXCEPT ![c][i].buttons[a] =
                      IF b.timer = "resetButton"
                      THEN [resetButton(b) EXCEPT !.pc = "idle", !.timer = "none"]
                      ELSE [b EXCEPT !.text = b.closure,
                                     !.disabled = FALSE,
                                     !.classes = @ \ rerunTimerClasses(b.timer),
                                     !.pc = "idle", !.timer = "none"]]
    /\ UNCHANGED <<prVars, authVars, organization, url, request, phase, data, tbody, noPrsMessage,
                   errorMessage, refreshTimers, quotaVars, orgVars>>

\* a click on "Re-run": handleRerunFailedJobs up to its first await, the
\* workflow runs of the commit are requested
handleRerunFailedJobs(c, i) ==
    /\ "rerun" \in Clickable(c, i)
    /\ LET b == rows[c][i].buttons["rerun"]
       IN  rows' = [rows EXCEPT ![c][i].buttons["rerun"] =
                      [b EXCEPT !.closure = b.text,
                                !.text = Text("Running..."),
                                !.disabled = TRUE,
                                !.classes = @ \cup {"loading"},
                                !.pc = "listing", !.clicks = @ + 1,
                                !.calls = 0, !.handlers = {},
                                !.listed = <<>>, !.runs = <<>>,
                                !.results = <<>>]]
    /\ UNCHANGED <<prVars, authVars, organization, url, request, phase, data, tbody, noPrsMessage,
                   errorMessage, refreshTimers, quotaVars, orgVars>>

\* GitHubAPI.fetchWorkflowRuns: data.workflow_runs || [], and [] for a
\* request that failed
fetchWorkflowRuns(resp) ==
    IF resp.kind = "ok" THEN resp.workflow_runs ELSE <<>>

isFailedRun(run) == run.conclusion = "failure" \/ run.conclusion = "cancelled"

\* GitHubAPI.rerunFailedJobs: true when the request succeeded, else false
rerunFailedJobs(status) == status = "ok"

RECURSIVE successCount(_)
successCount(results) ==
    IF results = <<>> THEN 0
    ELSE successCount(SubSeq(results, 1, Len(results) - 1))
         + (IF results[Len(results)] THEN 1 ELSE 0)

\* a variant that reports the full-success text whenever a re-run succeeded
rerunReportAnySuccess(b, results) ==
    LET k == successCount(results)
        n == Len(b.runs)
    IN  IF k > 0
        THEN [b EXCEPT !.text = [label |-> IF k > 1 THEN "Re-ran jobs"
                                           ELSE "Re-ran job", k |-> k, n |-> 0],
                       !.classes = (@ \ {"loading"}) \cup {"success"},
                       !.results = results,
                       !.pc = "settled", !.timer = "rerunDone"]
        ELSE [b EXCEPT !.text = [label |-> "succeeded", k |-> k, n |-> n],
                       !.classes = (@ \ {"loading"}) \cup {"warning"},
                       !.results = results,
                       !.pc = "settled", !.timer = "rerunDone"]

\* handleRerunFailedJobs after its loop: "Re-ran K job(s)" when every re-run
\* succeeded, else "K/N succeeded", and the 5 s timer
rerunReport(b, results) ==
    LET k == successCount(results)
        n == Len(b.runs)
    IN  IF k = n
        THEN [b EXCEPT !.text = [label |-> IF k > 1 THEN "Re-ran jobs"
                                           ELSE "Re-ran job", k |-> k, n |-> 0],
                       !.classes = (@ \ {"loading"}) \cup {"success"},
                       !.results = results,
                       !.pc = "settled", !.timer = "rerunDone"]
        ELSE [b EXCEPT !.text = [label |-> "succeeded", k |-> k, n |-> n],
                       !.classes = (@ \ {"loading"}) \cup {"warning"},
                       !.results = results,
                       !.pc = "settled", !.timer = "rerunDone"]

\* a variant in which fetchWorkflowRuns lets the failure of its request
\* through, to the catch block of handleRerunFailedJobs
workflowRunsAnsweredThrowing(c, i, resp, headers) ==
    /\ i \in InFlight(c, "rerun", "listing")
    /\ queryCompleted("fetchWorkflowRuns", "rest", resp.kind, headers, TRUE)
    /\ LET failedRuns == SelectSeq(fetchWorkflowRuns(resp), isFailedRun)
       IN  rows' = [rows EXCEPT ![c][i].buttons["rerun"] =
                      IF resp.kind # "ok"
                      THEN [@ EXCEPT !.text = Text("Error"),
                                     !.classes = (@ \ {"loading"}) \cup {"error"},
                                     !.pc = "settled", !.timer = "rerunError"]
                      ELSE IF Len(failedRuns) = 0
                      THEN [@ EXCEPT !.text = Text("No Failed Jobs"),
                                     !.classes = (@ \ {"loading"}) \cup {"success"},
                                     !.listed = fetchWorkflowRuns(resp),
                                     !.pc = "settled", !.timer = "rerunNone"]
                      ELSE [@ EXCEPT !.listed = fetchWorkflowRuns(resp),
                                     !.runs = failedRuns, !.calls = 1,
                                     !.pc = "rerunning"]]
    /\ UNCHANGED <<prVars, authVars, organization, url, request, phase, data, tbody, noPrsMessage,
                   errorMessage, refreshTimers, orgVars>>

\* the workflow-run request is answered: no failed or cancelled run ends the
\* command with "No Failed Jobs" and the 3 s timer, else the re-run of the
\* first such run is requested
workflowRunsAnswered(c, i, resp, headers) ==
    /\ i \in InFlight(c, "rerun", "listing")
    /\ queryCompleted("fetchWorkflowRuns", "rest", resp.kind, headers, TRUE)
    /\ LET failedRuns == SelectSeq(fetchWorkflowRuns(resp), isFailedRun)
       IN  rows' = [rows EXCEPT ![c][i].buttons["rerun"] =
                      IF Len(failedRuns) = 0
                      THEN [@ EXCEPT !.text = Text("No Failed Jobs"),
                                     !.classes = (@ \ {"loading"}) \cup {"success"},
                                     !.listed = fetchWorkflowRuns(resp),
                                     !.pc = "settled", !.timer = "rerunNone"]
                      ELSE [@ EXCEPT !.listed = fetchWorkflowRuns(resp),
                                     !.runs = failedRuns, !.calls = 1,
                                     !.pc = "rerunning"]]
    /\ UNCHANGED <<prVars, authVars, organization, url, request, phase, data, tbody, noPrsMessage,
                   errorMessage, refreshTimers, orgVars>>

\* a variant whose loop ends at the first re-run that fails
rerunAnsweredStopping(c, i, status, headers) ==
    /\ i \in InFlight(c, "rerun", "rerunning")
    /\ queryCompleted("rerunFailedJobs", "rest", status, headers, TRUE)
    /\ LET b == rows[c][i].buttons["rerun"]
           results == Append(b.results, rerunFailedJobs(status))
       IN  rows' = [rows EXCEPT ![c][i].buttons["rerun"] =
                      IF Len(results) = Len(b.runs) \/ ~rerunFailedJobs(status)
                      THEN rerunReport(b, results)
                      ELSE [b EXCEPT !.results = results, !.calls = @ + 1]]
    /\ UNCHANGED <<prVars, authVars, organization, url, request, phase, data, tbody,
                   noPrsMessage, errorMessage, refreshTimers, orgVars>>

\* the re-run request of the current run is answered: the next run's re-run
\* is requested, or the command reports after the last one
rerunAnswered(c, i, status, headers) ==
    /\ i \in InFlight(c, "rerun", "rerunning")
    /\ queryCompleted("rerunFailedJobs", "rest", status, headers, TRUE)
    /\ LET b == rows[c][i].buttons["rerun"]
           results == Append(b.results, rerunFailedJobs(status))
       IN  rows' = [rows EXCEPT ![c][i].buttons["rerun"] =
                      IF Len(results) = Len(b.runs)
                      THEN rerunReport(b, results)
                      ELSE [b EXCEPT !.results = results, !.calls = @ + 1]]
    /\ UNCHANGED <<prVars, authVars, organization, url, request, phase, data, tbody, noPrsMessage,
                   errorMessage, refreshTimers, orgVars>>

----------------------------------------------------------------------------
(* What the remote service may answer *)

Timestamps == [day : 0..MaxDay, hour : {0, 23}]

NoCommits == [nodesIsNull |-> FALSE, nodes |-> <<>>]
NullCommits == [nodesIsNull |-> TRUE, nodes |-> <<>>]
OneCommit(state) ==
    [nodesIsNull |-> FALSE, nodes |-> <<[oid |-> "sha", rollupState |-> state]>>]

RollupStates == {Null, "SUCCESS", "PENDING", "FAILURE", "ERROR", "EXPECTED"}

PullRequestRecord(draft, mergeable, mergeState, decision, updated, commits) ==
    [number |-> 0, isDraft |-> draft, mergeable |-> mergeable,
     mergeStateStatus |-> mergeState, reviewDecision |-> decision,
     updatedAt |-> updated, commits |-> commits]

\* the bulk results of at most n edges over the records of U; number is
\* the position of the record in the result
Batches(U, n) ==
    { [i \in DOMAIN f |-> [f[i] EXCEPT !.number = i]] :
        f \in UNION { [1..k -> U] : k \in 0..n } }

\* SpecPR: every draft flag, mergeability, merge state and review decision
PRRecords ==
    { PullRequestRecord(d, mg, ms, r, [day |-> 0, hour |-> 0], OneCommit("SUCCESS")) :
        d \in BOOLEAN,
        mg \in {"MERGEABLE", "CONFLICTING", "UNKNOWN"},
        ms \in {"BEHIND", "CLEAN", "DIRTY"},
        r \in {"APPROVED", "CHANGES_REQUESTED", "REVIEW_REQUIRED", Null} }

\* SpecSort: the three sort buckets at every timestamp
SortRecords ==
    { PullRequestRecord(FALSE, "MERGEABLE", "CLEAN", r, t, OneCommit("SUCCESS")) :
        r \in {"APPROVED", "CHANGES_REQUESTED", "REVIEW_REQUIRED"},
        t \in Timestamps }

\* Spec: every shape of the commit data, and every combination of draft,
\* behind-base and failing CI
CIRecords ==
    { PullRequestRecord(FALSE, "MERGEABLE", "CLEAN", r, [day |-> 0, hour |-> 0], c) :
        r \in {"APPROVED", "REVIEW_REQUIRED"},
        c \in {NoCommits, NullCommits} \cup { OneCommit(st) : st \in RollupStates } }
    \cup
    { PullRequestRecord(d, "MERGEABLE", ms, "REVIEW_REQUIRED",
                        [day |-> 0, hour |-> 0], OneCommit(st)) :
        d \in BOOLEAN, ms \in {"BEHIND", "CLEAN"}, st \in {"SUCCESS", "FAILURE"} }

\* SpecChecks: one failing pull request
FailingRecords ==
    { PullRequestRecord(FALSE, "MERGEABLE", "CLEAN", "REVIEW_REQUIRED",
                        [day |-> 0, hour |-> 0], OneCommit(st)) :
        st \in {"FAILURE", "ERROR"} }

\* check-run names, in pieces: "rails-ci / lint", "build", "rails-ci\t/ lint",
\* "lint", "ci: rails-ci / lint"
CheckNames ==
    { <<"rails-ci", " ", "/", " ", "lint">>,
      <<"build">>,
      <<"rails-ci", "\t", "/", " ", "lint">>,
      <<"lint">>,
      <<"ci:", " ", "rails-ci", " ", "/", " ", "lint">> }

CheckRuns ==
    { [name |-> n, conclusion |-> cn, html_url |-> u[1], details_url |-> u[2]] :
        n \in CheckNames,
        cn \in {"failure", "success", "cancelled"},
        u \in {<<"html", "details">>, <<Null, "details">>, <<Null, Null>>} }

\* answers to the check-run request that are no list of check runs
FailedResponses == {[kind |-> "network"], [kind |-> "http"]}

\* the answer with status 401
AuthFailed == [kind |-> "auth"]

\* SpecChecks: every list of at most MaxChecks check runs
CheckResponses ==
    { [kind |-> "ok", check_runs |-> runs] :
        runs \in UNION { [1..k -> CheckRuns] : k \in 0..MaxChecks } }
    \cup FailedResponses \cup {[kind |-> "norun"]}

\* Spec: no run, the runs of the specification's example, a failed request
LintFailed ==
    [name |-> <<"rails-ci", " ", "/", " ", "lint">>, conclusion |-> "failure",
     html_url |-> "html", details_url |-> "details"]
BuildPassed ==
    [name |-> <<"build">>, conclusion |-> "success",
     html_url |-> "html", details_url |-> "details"]

CIResponses ==
    { [kind |-> "ok", check_runs |-> runs] :
        runs \in {<<>>, <<BuildPassed>>, <<LintFailed, BuildPassed>>} }
    \cup FailedResponses

BulkErrors == {"auth", "http", "graphql", "network"}

\* the rate-limit headers of an answer: every answer of the refresh cycles
\* carries the same ones; QuotaHeaders has absent and empty headers and the
\* budgets around the threshold
CycleHeaders ==
    {[remaining |-> Header(<<9, 9>>), limit |-> Header(<<1, 0, 0>>),
      reset |-> Header(<<1>>)]}

QuotaHeaders ==
    [remaining : {Absent, Header(<<>>), Header(<<0>>), Header(<<9, 9>>),
                  Header(<<1, 0, 0>>)},
     limit : {Absent, Header(<<1, 0, 0>>)},
     reset : {Absent, Header(<<1>>)}]

Organizations == {"acme"}

\* the organizations the dropdown offers
Selectable == {"acme", "globex"}

----------------------------------------------------------------------------
(* Specifications *)

\* no validateToken call has been made
NoValidation ==
    [pc |-> "idle", calls |-> 0, caller |-> Null, tokenToValidate |-> Null,
     originalToken |-> Null, result |-> FALSE, authError |-> Null]

\* the page has loaded, nothing is shown, n refresh cycles are to come
InitPage(n) ==
    /\ organization = Null
    /\ phase = [c \in 1..n |-> "idle"]
    /\ data = [c \in 1..n |-> <<>>]
    /\ rows = [c \in 1..n |-> <<>>]
    /\ tbody = {}
    /\ noPrsMessage = FALSE
    /\ errorMessage = Null
    /\ rateLimit = [graphql |-> [shown |-> FALSE], rest |-> [shown |-> FALSE]]
    /\ lastCall = [api |-> "none"]
    /\ orgPending = 0
    /\ orgLast = [kind |-> "none"]
    /\ refreshTimers = 0
    /\ url \in Organizations
    /\ request = [c \in 1..n |-> Null]

\* the same with a token in the store
InitDashboard(n) ==
    /\ githubToken = "ghp_stored"
    /\ validation = NoValidation
    /\ InitPage(n)

\* Spec: the refresh cycle that bootstrap.js starts when the page has loaded
Init ==
    /\ pr = Null
    /\ verdict = [done |-> FALSE]
    /\ timeZone = 0
    /\ InitDashboard(1)
    /\ now = 0
    /\ orgsCache = cacheEntry(<<"acme">>, 0)

\* the cycles that wait for the bulk query, and the rows of cycle c that
\* wait for their check runs
Fetching == { c \in DOMAIN phase : phase[c] = "fetching" }
Awaiting(c) == { i \in DOMAIN rows[c] : rows[c][i].pc = "awaiting" }

CIBatches == Batches(CIRecords, MaxRows)

Next ==
    \/ \E c \in DOMAIN phase : DOMContentLoaded(c)
    \/ \E c \in Fetching, edges \in CIBatches, h \in CycleHeaders :
          fetchPullRequestsOk(c, edges, h)
    \/ \E c \in Fetching, err \in BulkErrors, h \in CycleHeaders :
          fetchPullRequestsFail(c, err, h)
    \/ \E c \in DOMAIN phase : replaceTable(c)
    \/ \E c \in DOMAIN phase :
          \E i \in Awaiting(c), resp \in CIResponses \cup {AuthFailed},
             h \in CycleHeaders :
              checkRunsAnswered(c, i, resp, h)

Spec == Init /\ [][Next]_vars

\* SpecAnswered: the same cycle on batches of failing and passing pull
\* requests, when every timer that is armed fires and every check-run
\* request that was sent is answered or fails: the 150 ms timer of
\* displayPullRequests is a setTimeout, and the continuation of
\* loadCIStatusForPR runs when the promise of its request settles
NextAnswered ==
    \/ \E c \in DOMAIN phase : DOMContentLoaded(c)
    \/ \E c \in Fetching, h \in CycleHeaders,
          edges \in Batches(FailingRecords \cup
                            {PullRequestRecord(FALSE, "MERGEABLE", "CLEAN",
                                               "REVIEW_REQUIRED",
                                               [day |-> 0, hour |-> 0],
                                               OneCommit("SUCCESS"))},
                            MaxRows) :
          fetchPullRequestsOk(c, edges, h)
    \/ \E c \in DOMAIN phase : replaceTable(c)
    \/ \E c \in DOMAIN phase :
          \E i \in Awaiting(c), resp \in CIResponses \cup {AuthFailed},
             h \in CycleHeaders :
              checkRunsAnswered(c, i, resp, h)

SpecAnswered ==
    /\ Init /\ [][NextAnswered]_vars
    /\ \A c \in 1..1 :
          /\ WF_vars(replaceTable(c))
          /\ \A i \in 1..(MaxRows + 1) :
                WF_vars(\E resp \in CIResponses \cup {AuthFailed},
                           h \in CycleHeaders : checkRunsAnswered(c, i, resp, h))

\* SpecSort: the same cycle, on batches that differ in the sort keys (their
\* commits all passed, so no check-run request is sent)
SortBatches == Batches(SortRecords, MaxBatch)

NextSort ==
    \/ \E c \in DOMAIN phase : DOMContentLoaded(c)
    \/ \E c \in Fetching, edges \in SortBatches, h \in CycleHeaders :
          fetchPullRequestsOk(c, edges, h)
    \/ \E c \in DOMAIN phase : replaceTable(c)

SpecSort == Init /\ [][NextSort]_vars

\* SpecChecks: the same cycle, on one failing pull request and every answer
\* to its check-run request
FailingBatches == { edges \in Batches(FailingRecords, 1) : Len(edges) = 1 }

NextChecks ==
    \/ \E c \in DOMAIN phase : DOMContentLoaded(c)
    \/ \E c \in Fetching, edges \in FailingBatches, h \in CycleHeaders :
          fetchPullRequestsOk(c, edges, h)
    \/ \E c \in DOMAIN phase : replaceTable(c)
    \/ \E c \in DOMAIN phase :
          \E i \in Awaiting(c), resp \in CheckResponses, h \in CycleHeaders :
              checkRunsAnswered(c, i, resp, h)

SpecChecks == Init /\ [][NextChecks]_vars

\* SpecButtons: one refresh cycle on one pull request, then clicks on its
\* buttons: a draft behind its base (both generic buttons) or a pull request
\* whose lint check failed ("Re-run"); every remote call may fail
ButtonRecords ==
    { PullRequestRecord(TRUE, "MERGEABLE", "BEHIND", "REVIEW_REQUIRED",
                        [day |-> 0, hour |-> 0], OneCommit("SUCCESS")),
      PullRequestRecord(FALSE, "MERGEABLE", "CLEAN", "REVIEW_REQUIRED",
                        [day |-> 0, hour |-> 0], OneCommit("FAILURE")) }

ButtonBatches == { edges \in Batches(ButtonRecords, 1) : Len(edges) = 1 }

LintFailedResponse == [kind |-> "ok", check_runs |-> <<LintFailed>>]

\* the workflow runs of a commit: id is the position in the list
WorkflowRuns ==
    { [i \in DOMAIN f |-> [id |-> i, conclusion |-> f[i]]] :
        f \in UNION { [1..k -> {"failure", "cancelled", "success"}] :
                        k \in 0..MaxRuns } }

WorkflowResponses ==
    { [kind |-> "ok", workflow_runs |-> runs] : runs \in WorkflowRuns }
    \cup FailedResponses

CallStatuses == {"ok", "http", "network"}

NextButtons ==
    \/ \E c \in DOMAIN phase : DOMContentLoaded(c)
    \/ \E c \in Fetching, edges \in ButtonBatches, h \in CycleHeaders :
          fetchPullRequestsOk(c, edges, h)
    \/ \E c \in Fetching, err \in {"http", "network"}, h \in CycleHeaders :
          fetchPullRequestsFail(c, err, h)
    \/ \E c \in DOMAIN phase : replaceTable(c)
    \/ \E c \in DOMAIN phase :
          \E i \in Awaiting(c), resp \in {LintFailedResponse} \cup FailedResponses,
             h \in CycleHeaders :
              checkRunsAnswered(c, i, resp, h)
    \/ \E c \in tbody : \E i \in DOMAIN rows[c], a \in {"convert-draft", "sync"} :
          handleActionButton(c, i, a)
    \/ \E c \in DOMAIN rows, a \in {"convert-draft", "sync"} :
          \E i \in InFlight(c, a, "inflight"),
             status \in CallStatuses, h \in CycleHeaders :
              actionSettled(c, i, a, status, h)
    \/ \E c \in tbody : \E i \in DOMAIN rows[c] : handleRerunFailedJobs(c, i)
    \/ \E c \in DOMAIN rows :
          \E i \in InFlight(c, "rerun", "listing"),
             resp \in WorkflowResponses, h \in CycleHeaders :
              workflowRunsAnswered(c, i, resp, h)
    \/ \E c \in DOMAIN rows :
          \E i \in InFlight(c, "rerun", "rerunning"),
             status \in CallStatuses, h \in CycleHeaders :
              rerunAnswered(c, i, status, h)
    \/ \E c \in DOMAIN rows : \E i \in DOMAIN rows[c], a \in ActionButtons :
          buttonReset(c, i, a)

SpecButtons == Init /\ [][NextButtons]_vars

\* the timers of the buttons fire
ButtonTimers ==
    \E c \in DOMAIN rows : \E i \in DOMAIN rows[c], a \in ActionButtons :
        buttonReset(c, i, a)

SpecButtonsFair == SpecButtons /\ WF_vars(ButtonTimers)

\* SpecCycles: MaxCycles refresh cycles that may overlap, the first started
\* by the page load and the others by a change of organization or by the
\* tab becoming visible, on results of at most two pull requests: one that is ready to
\* be merged and one whose lint check failed
CycleRecords ==
    { PullRequestRecord(FALSE, "MERGEABLE", "CLEAN", "APPROVED",
                        [day |-> 1, hour |-> 0], OneCommit("SUCCESS")),
      PullRequestRecord(FALSE, "MERGEABLE", "BEHIND", "REVIEW_REQUIRED",
                        [day |-> 0, hour |-> 0], OneCommit("FAILURE")) }

CycleBatches == Batches(CycleRecords, 2)

InitCycles ==
    /\ pr = Null
    /\ verdict = [done |-> FALSE]
    /\ timeZone = 0
    /\ InitDashboard(MaxCycles)
    /\ now = 0
    /\ orgsCache = cacheEntry(<<"acme">>, 0)

NextCycles ==
    \/ \E c \in DOMAIN phase : DOMContentLoaded(c)
    \/ \E c \in DOMAIN phase : visibilitychange(c)
    \/ \E c \in DOMAIN phase, org \in Selectable : organizationChanged(c, org)
    \/ \E c \in Fetching, edges \in CycleBatches, h \in CycleHeaders :
          fetchPullRequestsOk(c, edges, h)
    \/ \E c \in Fetching, err \in BulkErrors, h \in CycleHeaders :
          fetchPullRequestsFail(c, err, h)
    \/ \E c \in DOMAIN phase : replaceTable(c)
    \/ \E c \in DOMAIN phase :
          \E i \in Awaiting(c), resp \in {LintFailedResponse, [kind |-> "http"]},
             h \in CycleHeaders :
              checkRunsAnswered(c, i, resp, h)

SpecCycles == InitCycles /\ [][NextCycles]_vars

\* SpecRefresh: the refresh cycle of the page load on one pull request, a
\* draft ("Draft => Open") or one whose lint check failed ("Re-run"), the
\* commands of its button, and the refresh cycles that the timers of the
\* commands start
RefreshRecords ==
    { PullRequestRecord(TRUE, "MERGEABLE", "CLEAN", "REVIEW_REQUIRED",
                        [day |-> 0, hour |-> 0], OneCommit("SUCCESS")),
      PullRequestRecord(FALSE, "MERGEABLE", "CLEAN", "REVIEW_REQUIRED",
                        [day |-> 0, hour |-> 0], OneCommit("FAILURE")) }

RefreshBatches == { edges \in Batches(RefreshRecords, 1) : Len(edges) = 1 }

OneFailedRun ==
    [kind |-> "ok", workflow_runs |-> <<[id |-> 1, conclusion |-> "failure"]>>]

NextRefresh ==
    \/ \E c \in DOMAIN phase : DOMContentLoaded(c)
    \/ \E c \in Fetching, edges \in RefreshBatches, h \in CycleHeaders :
          fetchPullRequestsOk(c, edges, h)
    \/ \E c \in DOMAIN phase : replaceTable(c)
    \/ \E c \in DOMAIN phase :
          \E i \in Awaiting(c), h \in CycleHeaders :
              checkRunsAnswered(c, i, LintFailedResponse, h)
    \/ \E c \in tbody : \E i \in DOMAIN rows[c], a \in {"convert-draft", "sync"} :
          handleActionButton(c, i, a)
    \/ \E c \in DOMAIN rows, a \in {"convert-draft", "sync"} :
          \E i \in InFlight(c, a, "inflight"),
             status \in {"ok", "http"}, h \in CycleHeaders :
              actionSettled(c, i, a, status, h)
    \/ \E c \in tbody : \E i \in DOMAIN rows[c] : handleRerunFailedJobs(c, i)
    \/ \E c \in DOMAIN rows :
          \E i \in InFlight(c, "rerun", "listing"), h \in CycleHeaders :
              workflowRunsAnswered(c, i, OneFailedRun, h)
    \/ \E c \in DOMAIN rows :
          \E i \in InFlight(c, "rerun", "rerunning"),
             status \in {"ok", "http"}, h \in CycleHeaders :
              rerunAnswered(c, i, status, h)
    \/ \E c \in DOMAIN rows : \E i \in DOMAIN rows[c], a \in ActionButtons :
          buttonReset(c, i, a)
    \/ \E c \in DOMAIN phase : refreshTimerFired(c)

SpecRefresh == InitCycles /\ [][NextRefresh]_vars

\* SpecRerender: refresh cycles that the page load, the tab becoming visible
\* and the timers of the commands start, on one pull request that is behind
\* its base ("Sync"), and the commands of its button
NextRerender ==
    \/ \E c \in DOMAIN phase : DOMContentLoaded(c)
    \/ \E c \in DOMAIN phase : visibilitychange(c)
    \/ \E c \in Fetching, h \in CycleHeaders :
          fetchPullRequestsOk(c,
                              <<PullRequestRecord(FALSE, "MERGEABLE", "BEHIND",
                                                  "REVIEW_REQUIRED",
                                                  [day |-> 0, hour |-> 0],
                                                  OneCommit("SUCCESS"))>>,
                              h)
    \/ \E c \in DOMAIN phase : replaceTable(c)
    \/ \E c \in tbody : \E i \in DOMAIN rows[c] : handleActionButton(c, i, "sync")
    \/ \E c \in DOMAIN rows :
          \E i \in InFlight(c, "sync", "inflight"),
             status \in {"ok", "http"}, h \in CycleHeaders :
              actionSettled(c, i, "sync", status, h)
    \/ \E c \in DOMAIN rows : \E i \in DOMAIN rows[c] : buttonReset(c, i, "sync")
    \/ \E c \in DOMAIN phase : refreshTimerFired(c)

SpecRerender == InitCycles /\ [][NextRerender]_vars

\* SpecQuota: every kind of remote call, answered with every combination of
\* rate-limit headers, in a browser whose organization cache is empty: the
\* organization list, the bulk query for one pull request whose lint check
\* failed, its check runs, and a re-run command on one failed workflow run
QuotaBatches ==
    { edges \in Batches({PullRequestRecord(FALSE, "MERGEABLE", "CLEAN",
                                            "REVIEW_REQUIRED",
                                            [day |-> 0, hour |-> 0],
                                            OneCommit("FAILURE"))}, 1) :
        Len(edges) = 1 }

InitQuota ==
    /\ pr = Null
    /\ verdict = [done |-> FALSE]
    /\ timeZone = 0
    /\ InitDashboard(1)
    /\ now = 0
    /\ orgsCache = NoEntry

NextQuota ==
    \/ \E c \in DOMAIN phase : DOMContentLoaded(c)
    \/ \E status \in {"ok", "http", "network"}, h \in QuotaHeaders :
          organizationsAnswered(status, <<"acme">>, h)
    \/ \E c \in Fetching, edges \in QuotaBatches, h \in QuotaHeaders :
          fetchPullRequestsOk(c, edges, h)
    \/ \E c \in Fetching, err \in {"http", "network"}, h \in QuotaHeaders :
          fetchPullRequestsFail(c, err, h)
    \/ \E c \in DOMAIN phase : replaceTable(c)
    \/ \E c \in DOMAIN phase :
          \E i \in Awaiting(c),
             resp \in {LintFailedResponse, [kind |-> "http"], [kind |-> "network"]},
             h \in QuotaHeaders :
              checkRunsAnswered(c, i, resp, h)
    \/ \E c \in tbody : \E i \in DOMAIN rows[c] : handleRerunFailedJobs(c, i)
    \/ \E c \in DOMAIN rows :
          \E i \in InFlight(c, "rerun", "listing"),
             resp \in {OneFailedRun, [kind |-> "http"], [kind |-> "network"]},
             h \in QuotaHeaders :
              workflowRunsAnswered(c, i, resp, h)
    \/ \E c \in DOMAIN rows :
          \E i \in InFlight(c, "rerun", "rerunning"),
             status \in CallStatuses, h \in QuotaHeaders :
              rerunAnswered(c, i, status, h)
    \/ \E c \in DOMAIN rows : \E i \in DOMAIN rows[c], a \in ActionButtons :
          buttonReset(c, i, a)

SpecQuota == InitQuota /\ [][NextQuota]_vars

\* SpecOrgs: the organization list and its cache over MaxClock hours, from
\* a browser that has no entry or an entry written at hour 0
OrgLists == {<<>>, <<"acme">>, <<"acme", "globex">>}

OrgStatuses == {"ok", "auth", "http", "network"}

InitOrgs ==
    /\ pr = Null
    /\ verdict = [done |-> FALSE]
    /\ timeZone = 0
    /\ InitDashboard(1)
    /\ now = 0
    /\ orgsCache \in {NoEntry, cacheEntry(<<"acme">>, 0)}

NextOrgs ==
    \/ callGetUserOrganizations
    \/ \E status \in OrgStatuses, res \in OrgLists, h \in CycleHeaders :
          organizationsAnswered(status, res, h)
    \/ tick

SpecOrgs == InitOrgs /\ [][NextOrgs]_vars

\* SpecToken: the sign-in flow, with and without a token in the store, on
\* every answer to the validation request
InitToken ==
    /\ pr = Null
    /\ verdict = [done |-> FALSE]
    /\ timeZone = 0
    /\ githubToken \in {Null, "ghp_old"}
    /\ validation = NoValidation
    /\ InitPage(1)
    /\ now = 0
    /\ orgsCache \in {NoEntry, cacheEntry(<<"acme">>, 0)}

NextToken ==
    \/ \E token \in {"ghp_old", "ghp_new"} : handleTokenSubmit(token)
    \/ initializeAuth
    \/ \E status \in {"ok", "auth", "http", "network"}, h \in CycleHeaders :
          userAnswered(status, h)
    \/ handleTokenSubmitResumes
    \/ initializeAuthResumes

SpecToken == InitToken /\ [][NextToken]_vars

\* SpecPR: new PullRequest(prData) for one record, then its predicates
InitPR ==
    /\ pr \in PRRecords
    /\ verdict = [done |-> FALSE]
    /\ timeZone = 0
    /\ InitDashboard(1)
    /\ now = 0
    /\ orgsCache = cacheEntry(<<"acme">>, 0)

Classify ==
    /\ ~verdict.done
    /\ verdict' = [done |-> TRUE,
                   isReadyToBeMerged |-> isReadyToBeMerged(pr),
                   isBlockedByOther |-> isBlockedByOther(pr),
                   hasBeenApproved |-> hasBeenApproved(pr),
                   hasChangesRequested |-> hasChangesRequested(pr),
                   waitingForReview |-> waitingForReview(pr),
                   hasNoConflicts |-> hasNoConflicts(pr)]
    /\ UNCHANGED <<pr, timeZone, authVars, dashVars, quotaVars, orgVars>>

NextPR == Classify

SpecPR == InitPR /\ [][NextPR]_vars

\* SpecStale: one record, updated at the first or the last hour of a day, in
\* a browser one hour west of, at or one hour east of UTC, at any later hour
TimeZones == {-1, 0, 1}

StaleRecords ==
    { PullRequestRecord(FALSE, "MERGEABLE", "CLEAN", r, t, OneCommit("SUCCESS")) :
        r \in {"APPROVED", "CHANGES_REQUESTED"}, t \in Timestamps }

InitStale ==
    /\ pr \in StaleRecords
    /\ verdict = [done |-> FALSE]
    /\ timeZone \in TimeZones
    /\ InitDashboard(1)
    /\ now \in 0..MaxClock
    /\ DateParse(pr.updatedAt) <= now
    /\ orgsCache = cacheEntry(<<"acme">>, 0)

\* createPRRow calls applyRowStyling, which asks isStale for the rows that
\* are neither blocked nor ready
StyleRow ==
    /\ ~verdict.done
    /\ verdict' = [done |-> TRUE,
                   isStale |-> isStale(pr),
                   classList |-> applyRowStyling(pr)]
    /\ UNCHANGED <<pr, timeZone, authVars, dashVars, quotaVars, orgVars>>

NextStale == StyleRow

SpecStale == InitStale /\ [][NextStale]_vars

\* SpecTitle: one record whose title is put together from an opening
\* bracket, letters, a hyphen, digits, a closing bracket, white space and a
\* word, each of which may be missing or wrong
Runs(chars, n) == UNION { [1..k -> chars] : k \in 0..n }

Titles ==
    { open \o letters \o hyphen \o digits \o close \o spaces \o word :
        open \in {<<>>, <<"[">>, <<" ", "[">>},
        letters \in Runs({"A", "a"}, MaxKey),
        hyphen \in {<<>>, <<"-">>},
        digits \in Runs({"1", "a"}, MaxKey),
        close \in {<<>>, <<"]">>},
        spaces \in {<<>>, <<" ">>, <<" ", "\t">>},
        word \in {<<>>, <<"x">>} }

TitleRecords == { [title |-> t, url |-> "url"] : t \in Titles }

InitTitle ==
    /\ pr \in TitleRecords
    /\ verdict = [done |-> FALSE]
    /\ timeZone = 0
    /\ InitDashboard(1)
    /\ now = 0
    /\ orgsCache = cacheEntry(<<"acme">>, 0)

\* createPRRow calls createTitleCell
TitleCell ==
    /\ ~verdict.done
    /\ verdict' = [done |-> TRUE,
                   jiraKey |-> getJiraKey(pr),
                   titleWithoutJira |-> getTitleWithoutJira(pr),
                   cell |-> createTitleCell(pr)]
    /\ UNCHANGED <<pr, timeZone, authVars, dashVars, quotaVars, orgVars>>

NextTitle == TitleCell

SpecTitle == InitTitle /\ [][NextTitle]_vars

----------------------------------------------------------------------------
(* Properties *)

\* the CI status a row's cell shows: the badge classes neutral, success and
\* warning are NONE, SUCCESS and PENDING; the class error is FAILURE under
\* the badge "Failed" and ERROR under every other badge
CIStatusOf(row) ==
    IF row.ciClass = "success" THEN "SUCCESS"
    ELSE IF row.ciClass = "warning" THEN "PENDING"
    ELSE IF row.ciClass = "neutral" THEN "NONE"
    ELSE IF row.ciText = "Failed" THEN "FAILURE"
    ELSE "ERROR"

\* C1: a record whose mergeability is CONFLICTING is never ready to be
\* merged, whatever its draft flag and review decision
C1_ConflictingNeverReady ==
    (verdict.done /\ pr.mergeable = "CONFLICTING") => ~verdict.isReadyToBeMerged

C1_Witness ==
    /\ verdict.done
    /\ pr.mergeable = "CONFLICTING"
    /\ pr.reviewDecision = "APPROVED"
    /\ ~pr.isDraft

\* C2: a draft is neither ready to be merged nor blocked by other, whatever
\* its mergeability and review decision
C2_DraftNeitherReadyNorBlocked ==
    (verdict.done /\ pr.isDraft) =>
        (~verdict.isReadyToBeMerged /\ ~verdict.isBlockedByOther)

C2_Witness ==
    /\ verdict.done
    /\ pr.isDraft
    /\ pr.mergeable = "MERGEABLE"
    /\ pr.reviewDecision = "APPROVED"

\* C5: hasBeenApproved is "APPROVED and no changes requested",
\* hasChangesRequested is "CHANGES_REQUESTED", waitingForReview is "not a
\* draft, not approved, no changes requested and REVIEW_REQUIRED"
C5_ReviewPredicates ==
    verdict.done =>
        /\ verdict.hasBeenApproved <=>
              (pr.reviewDecision = "APPROVED" /\ ~verdict.hasChangesRequested)
        /\ verdict.hasChangesRequested <=> (pr.reviewDecision = "CHANGES_REQUESTED")
        /\ verdict.waitingForReview <=>
              /\ ~pr.isDraft
              /\ ~verdict.hasBeenApproved
              /\ ~verdict.hasChangesRequested
              /\ pr.reviewDecision = "REVIEW_REQUIRED"

C5_Witness ==
    /\ verdict.done
    /\ ~pr.isDraft
    /\ pr.reviewDecision = Null
    /\ ~verdict.waitingForReview
    /\ ~verdict.hasBeenApproved

\* C3: in the sorted rows no non-ready item precedes a ready one; at equal
\* readiness no blocked-by-other item precedes a non-blocked one; at equal
\* readiness and blockedness updatedAt does not decrease; and an approved
\* mergeable item precedes a review-required mergeable one
C3_SortOrder ==
    \A c \in DOMAIN rows : \A i, j \in DOMAIN rows[c] :
        i < j =>
            LET a == rows[c][i].pr
                b == rows[c][j].pr
            IN  /\ ~(~isReadyToBeMerged(a) /\ isReadyToBeMerged(b))
                /\ (isReadyToBeMerged(a) <=> isReadyToBeMerged(b)) =>
                      ~(isBlockedByOther(a) /\ ~isBlockedByOther(b))
                /\ ( /\ isReadyToBeMerged(a) <=> isReadyToBeMerged(b)
                     /\ isBlockedByOther(a) <=> isBlockedByOther(b) ) =>
                      DateParse(a.updatedAt) <= DateParse(b.updatedAt)
                /\ ~( /\ ~a.isDraft /\ ~b.isDraft
                      /\ a.mergeable = "MERGEABLE" /\ b.mergeable = "MERGEABLE"
                      /\ a.reviewDecision = "REVIEW_REQUIRED"
                      /\ b.reviewDecision = "APPROVED" )

\* the bulk result A (ready, newer), B (ready, older), C (not ready) is
\* shown as B, A, C
C3_Witness ==
    \E c \in DOMAIN rows :
        /\ tbody = {c}
        /\ Len(rows[c]) = 3
        /\ rows[c][1].pr.number = 2
        /\ rows[c][2].pr.number = 1
        /\ rows[c][3].pr.number = 3
        /\ isReadyToBeMerged(rows[c][1].pr)
        /\ isReadyToBeMerged(rows[c][2].pr)
        /\ ~isReadyToBeMerged(rows[c][3].pr)
        /\ rows[c][1].pr.updatedAt.day < rows[c][2].pr.updatedAt.day

\* the sort keys of a record
SortKey(p) == <<isReadyToBeMerged(p), isBlockedByOther(p), DateParse(p.updatedAt)>>

\* C4: the rows are the records of the bulk result, each exactly once, and
\* records with equal sort keys keep the order of the bulk result
C4_StablePermutation ==
    \A c \in DOMAIN rows :
        phase[c] \in {"fading", "shown"} =>
            /\ Len(rows[c]) = Len(data[c])
            /\ \A k \in DOMAIN data[c] :
                  Cardinality({ i \in DOMAIN rows[c] : rows[c][i].pr = data[c][k] }) = 1
            /\ \A i, j \in DOMAIN rows[c] :
                  (i < j /\ SortKey(rows[c][i].pr) = SortKey(rows[c][j].pr)) =>
                      rows[c][i].pr.number < rows[c][j].pr.number

\* the third record of the bulk result moves to the front, the first two
\* have equal keys and stay in their order
C4_Witness ==
    \E c \in DOMAIN rows :
        /\ tbody = {c}
        /\ Len(rows[c]) = 3
        /\ rows[c][1].pr.number = 3
        /\ rows[c][2].pr.number = 1
        /\ rows[c][3].pr.number = 2
        /\ SortKey(rows[c][2].pr) = SortKey(rows[c][3].pr)

\* a record with a latest commit whose rollup state is FAILURE or ERROR
HasFailingCommit(p) ==
    /\ ~p.commits.nodesIsNull
    /\ p.commits.nodes # <<>>
    /\ p.commits.nodes[1].rollupState \in {"FAILURE", "ERROR"}

\* the enrichment of the row failed: its catch block ran, or its check-run
\* request was answered with a network or an HTTP error
EnrichmentFailed(row) == row.caught \/ row.response.kind \in {"network", "http"}

\* C6: a record without a commit gets NONE, without a request and without
\* an exception; a record with a commit gets SUCCESS, PENDING, FAILURE or
\* ERROR for the rollup state of that name and NONE for any other or no
\* rollup state
C6_RollupMapping ==
    \A c \in DOMAIN rows : \A i \in DOMAIN rows[c] :
        LET row == rows[c][i]
            nodes == row.pr.commits.nodes
        IN  (row.pc = "done" /\ ~row.pr.commits.nodesIsNull) =>
                IF nodes = <<>>
                THEN CIStatusOf(row) = "NONE" /\ row.lookups = 0 /\ ~row.caught
                ELSE /\ ~row.caught
                     /\ CIStatusOf(row) =
                          IF nodes[1].rollupState \in {"SUCCESS", "PENDING", "FAILURE", "ERROR"}
                          THEN nodes[1].rollupState
                          ELSE "NONE"

\* a table whose first row has no commit and whose second row has a rollup
\* state outside the four mapped ones, both enriched
C6_Witness ==
    \E c \in DOMAIN rows :
        /\ tbody = {c}
        /\ Len(rows[c]) = 2
        /\ rows[c][1].pc = "done" /\ rows[c][2].pc = "done"
        /\ rows[c][1].pr.commits = NoCommits
        /\ rows[c][2].pr.commits = OneCommit("EXPECTED")
        /\ rows[c][1].ciText = "sha latest commit not found"
        /\ rows[c][2].ciText = "No CI"

RECURSIVE SumLookups(_)
SumLookups(rs) ==
    IF rs = <<>> THEN 0
    ELSE SumLookups(SubSeq(rs, 1, Len(rs) - 1)) + rs[Len(rs)].lookups

\* C7: once the table of a cycle is shown, a row has had exactly one
\* check-run request if its record has a failing commit and none otherwise,
\* so the requests of the cycle number the failing records of the batch;
\* before that no request is sent
C7_LookupOnlyForFailing ==
    \A c \in DOMAIN rows :
        /\ \A i \in DOMAIN rows[c] :
              rows[c][i].lookups =
                  IF phase[c] = "shown" /\ HasFailingCommit(rows[c][i].pr) THEN 1 ELSE 0
        /\ phase[c] = "shown" =>
              SumLookups(rows[c]) =
                  Cardinality({ k \in DOMAIN data[c] : HasFailingCommit(data[c][k]) })

\* a shown, fully enriched table with one failing and one pending record
C7_Witness ==
    \E c \in DOMAIN rows :
        /\ phase[c] = "shown"
        /\ Len(rows[c]) = 2
        /\ \A i \in DOMAIN rows[c] : rows[c][i].pc = "done"
        /\ \E i, j \in DOMAIN rows[c] :
              /\ rows[c][i].pr.commits = OneCommit("ERROR")
              /\ rows[c][i].lookups = 1
              /\ rows[c][j].pr.commits = OneCommit("PENDING")
              /\ rows[c][j].lookups = 0

\* the failed runs of a list
IsFailure(run) == run.conclusion = "failure"

\* name without a leading "rails-ci", one piece of ws, "/ "
WithoutPrefix(name, ws) ==
    IF \E w \in ws : Len(name) >= 4 /\ SubSeq(name, 1, 4) = <<"rails-ci", w, "/", " ">>
    THEN SubSeq(name, 5, Len(name))
    ELSE name

\* the failed checks of an answered row are the failure runs of the answer,
\* in order, each named without the prefix; and the runs "rails-ci / lint"
\* (failure), "build" (success) under a FAILURE rollup give FAILURE with the
\* one failed check "lint"
FailedChecksAre(ws) ==
    \A c \in DOMAIN rows : \A i \in DOMAIN rows[c] :
        LET row == rows[c][i]
        IN  (row.pc = "done" /\ row.response.kind = "ok") =>
                LET failed == SelectSeq(row.response.check_runs, IsFailure)
                IN  /\ Len(row.failedChecks) = Len(failed)
                    /\ \A k \in DOMAIN failed :
                          row.failedChecks[k].name = WithoutPrefix(failed[k].name, ws)
                    /\ ( /\ row.pr.commits = OneCommit("FAILURE")
                         /\ Len(row.response.check_runs) = 2
                         /\ row.response.check_runs[1].name = <<"rails-ci", " ", "/", " ", "lint">>
                         /\ row.response.check_runs[1].conclusion = "failure"
                         /\ row.response.check_runs[2].name = <<"build">>
                         /\ row.response.check_runs[2].conclusion = "success" ) =>
                          /\ CIStatusOf(row) = "FAILURE"
                          /\ Len(row.failedChecks) = 1
                          /\ row.failedChecks[1].name = <<"lint">>

\* C8 as stated: the prefix removed is exactly "rails-ci / "
C8_PrefixIsLiteral == FailedChecksAre({" "})

\* C8 as amended: the prefix removed is "rails-ci", one whitespace
\* character of any kind, then "/ "
C8_FailedChecks == FailedChecksAre({" ", "\t"})

\* the example of the specification, answered
C8_Witness ==
    \E c \in DOMAIN rows :
        /\ tbody = {c}
        /\ Len(rows[c]) = 1
        /\ rows[c][1].pc = "done"
        /\ rows[c][1].pr.commits = OneCommit("FAILURE")
        /\ rows[c][1].response.kind = "ok"
        /\ Len(rows[c][1].response.check_runs) = 2
        /\ rows[c][1].response.check_runs[1].name = <<"rails-ci", " ", "/", " ", "lint">>
        /\ rows[c][1].response.check_runs[1].conclusion = "failure"
        /\ rows[c][1].response.check_runs[2].name = <<"build">>
        /\ rows[c][1].response.check_runs[2].conclusion = "success"
        /\ Len(rows[c][1].failedChecks) = 1

\* C9: a row whose check-run request failed shows ERROR with no failed
\* check, whatever its rollup state was
C9_FailedLookupGivesError ==
    \A c \in DOMAIN rows : \A i \in DOMAIN rows[c] :
        LET row == rows[c][i]
        IN  (row.pc = "done" /\ row.response.kind \in {"network", "http"}) =>
                (CIStatusOf(row) = "ERROR" /\ row.failedChecks = <<>>)

\* C10: in a shown table every record of the batch has its row and every
\* row's enrichment has started; and beside a row whose enrichment failed,
\* an enriched row carries its own status and its own actions
C10_SiblingIsolation ==
    \A c \in DOMAIN rows :
        phase[c] = "shown" =>
            /\ c \in tbody
            /\ Len(rows[c]) = Len(data[c])
            /\ \A i \in DOMAIN rows[c] : rows[c][i].pc \in {"awaiting", "done"}
            /\ \A i, j \in DOMAIN rows[c] :
                  (i # j /\ EnrichmentFailed(rows[c][i]) /\ rows[c][j].pc = "done") =>
                      LET row == rows[c][j]
                      IN  /\ row.ciText # "Loading..."
                          /\ ~EnrichmentFailed(row) => row.ciText # "Error"
                          /\ ("convert-draft" \in row.actions) <=> row.pr.isDraft
                          /\ ("sync" \in row.actions) <=> (row.pr.mergeStateStatus = "BEHIND")
                          /\ ("rerun" \in row.actions) <=> (Len(row.failedChecks) > 0)

\* a row whose enrichment threw beside a row with its failed check and its
\* re-run action
C10_Witness ==
    \E c \in DOMAIN rows :
        /\ phase[c] = "shown"
        /\ Len(rows[c]) = 2
        /\ rows[c][1].caught
        /\ rows[c][1].ciText = "Error"
        /\ rows[c][2].pc = "done"
        /\ rows[c][2].response.kind = "ok"
        /\ Len(rows[c][2].failedChecks) = 1
        /\ "rerun" \in rows[c][2].actions

----------------------------------------------------------------------------
(* Recommended actions *)

\* loadCIStatusForPR run to completion on a fresh row of p, its check-run
\* request (if it sends one) answered with resp
enrichedRow(p, resp) ==
    LET r == startCI(createPRRow(p))
    IN  IF r.pc = "awaiting" THEN finishCI(r, resp) ELSE r

\* C11: on every row whose enrichment has completed, "mark ready" is offered
\* iff the item is a draft, "sync" iff its merge state is BEHIND, "re-run" iff
\* its CI status is FAILURE or ERROR with at least one failed check; and
\* every subset of the three buttons is offered on some item
C11_ActionsIndependent ==
    /\ \A c \in DOMAIN rows : \A i \in DOMAIN rows[c] :
          rows[c][i].pc = "done" =>
              LET row == rows[c][i]
              IN  /\ row.actions \subseteq ActionButtons
                  /\ "convert-draft" \in row.actions <=> row.pr.isDraft
                  /\ "sync" \in row.actions <=>
                        row.pr.mergeStateStatus = "BEHIND"
                  /\ "rerun" \in row.actions <=>
                        /\ CIStatusOf(row) \in {"FAILURE", "ERROR"}
                        /\ Len(row.failedChecks) >= 1
    /\ (\E c \in DOMAIN rows : phase[c] = "shown") =>
          \A S \in SUBSET ActionButtons :
              \E p \in CIRecords, resp \in CIResponses :
                  ~commitsThrows(p) /\ enrichedRow(p, resp).actions = S

C11_Witness ==
    \E c \in DOMAIN rows :
        /\ phase[c] = "shown"
        /\ \A i \in DOMAIN rows[c] : rows[c][i].pc = "done"
        /\ \E i, j \in DOMAIN rows[c] :
              /\ rows[c][i].actions = ActionButtons
              /\ rows[c][j].actions = {}

----------------------------------------------------------------------------
(* Outcomes of one refresh *)

\* C12: a refresh whose bulk query returned no pull request shows the
\* "no pull requests" message and no error message; a refresh whose bulk
\* query failed shows an error message and not the "no pull requests"
\* message; one refresh never shows both
C12_EmptyIsNotAnError ==
    \A c \in DOMAIN phase :
        /\ phase[c] = "nodata" =>
              (data[c] = <<>> /\ noPrsMessage /\ errorMessage = Null)
        /\ phase[c] = "failed" => (errorMessage # Null /\ ~noPrsMessage)
        /\ ~(noPrsMessage /\ errorMessage # Null)

C12_Witness ==
    \E c \in DOMAIN phase :
        /\ phase[c] = "nodata"
        /\ noPrsMessage
        /\ tbody = {}
        /\ errorMessage = Null

----------------------------------------------------------------------------
(* The organization cache *)

\* the step is a call of getUserOrganizations
OrgsCalled == orgLast' # orgLast /\ orgLast'.kind \in {"hit", "miss"}

\* the step writes the answer of a successful /user/orgs request
OrgsFetched ==
    /\ orgPending' = orgPending - 1
    /\ orgLast'.kind = "fetched"
    /\ lastCall'.api = "getUserOrganizations"
    /\ lastCall'.status = "ok"

\* C15: every entry expires 24 hours after it was written; a call at or after
\* expiresAt is a miss that removes the entry and asks the remote service;
\* an entry only ever appears with the answer of a successful request
C15_ExpiredEntryIsDeleted ==
    /\ [](orgsCache.present =>
            /\ JSONparse(orgsCache.text).cachedAt <= now
            /\ JSONparse(orgsCache.text).expiresAt =
                  JSONparse(orgsCache.text).cachedAt + 24)
    /\ [][(OrgsCalled /\ orgsCache.present
              /\ now >= JSONparse(orgsCache.text).expiresAt)
            => /\ orgLast'.kind = "miss"
               /\ ~orgsCache'.present
               /\ orgPending' = orgPending + 1]_vars
    /\ [][(~orgsCache.present /\ orgsCache'.present) => OrgsFetched]_vars

\* an entry written at hour 0 was read at hour 25 and is gone
C15_Witness ==
    /\ orgLast = [kind |-> "miss", at |-> 25, found |-> TRUE]
    /\ lastCall = [api |-> "none"]
    /\ ~orgsCache.present
    /\ now = 25

----------------------------------------------------------------------------
(* Commands *)

\* every button there is, as <<cycle, row, action>>
Buttons ==
    { t \in (DOMAIN rows) \X (1..MaxRows) \X ActionButtons :
        /\ t[2] \in DOMAIN rows[t[1]]
        /\ t[3] \in DOMAIN rows[t[1]][t[2]].buttons }

ButtonAt(t) == rows[t[1]][t[2]].buttons[t[3]]

GenericButtons == { t \in Buttons : t[3] \in {"convert-draft", "sync"} }

DisplayClasses == {"success", "warning", "error"}

\* C17: a generic button is disabled exactly from its click until its reset;
\* while its command runs the operation has been invoked once and no handler
\* has run; once it has settled exactly one handler has run, the success
\* handler under the success display and the error handler under the error
\* display, and the operation has still been invoked once
C17_OneCallOneHandler ==
    \A t \in GenericButtons :
        LET b == ButtonAt(t)
        IN  /\ b.disabled <=> b.pc \in {"inflight", "settled"}
            /\ b.pc = "inflight" =>
                  (b.calls = 1 /\ b.handlers = {} /\ "loading" \in b.classes)
            /\ b.pc = "settled" =>
                  /\ b.calls = 1
                  /\ \/ b.handlers = {"onSuccess"} /\ b.classes = {"success"}
                     \/ b.handlers = {"onError"} /\ b.classes = {"error"}
            /\ (b.pc = "idle" /\ b.clicks > 0) =>
                  (b.calls = 1 /\ Cardinality(b.handlers) = 1)

\* the second command of a button has failed
C17_Witness ==
    \E t \in GenericButtons :
        /\ ButtonAt(t).pc = "settled"
        /\ ButtonAt(t).clicks = 2
        /\ ButtonAt(t).handlers = {"onError"}
        /\ ButtonAt(t).disabled

\* the button is as it was rendered
IsIdle(b, a) ==
    /\ b.pc = "idle"
    /\ ~b.disabled
    /\ b.text = ButtonLabel(a)
    /\ b.classes = {}
    /\ ~b.dataset.set

\* the step is the answer to a request of the command of button t
CommandAnswered(t) ==
    \/ \E status \in CallStatuses, h \in CycleHeaders :
          actionSettled(t[1], t[2], t[3], status, h)
    \/ \E resp \in WorkflowResponses, h \in CycleHeaders :
          t[3] = "rerun" /\ workflowRunsAnswered(t[1], t[2], resp, h)
    \/ \E status \in CallStatuses, h \in CycleHeaders :
          t[3] = "rerun" /\ rerunAnswered(t[1], t[2], status, h)

\* C18: a command that has settled shows the success, warning or error
\* display and then returns to idle (enabled, original label, no marker); a
\* command in flight is disabled with no timer armed, and only the answer to
\* its request changes its button
C18_SettlesThenIdle ==
    /\ [](\A t \in Buttons :
            LET b == ButtonAt(t)
            IN  /\ b.pc = "settled" =>
                      (b.classes \cap DisplayClasses # {} /\ b.timer # "none")
                /\ b.pc \in {"inflight", "listing", "rerunning"} =>
                      (b.disabled /\ "loading" \in b.classes /\ b.timer = "none")
                /\ b.pc = "idle" => IsIdle(b, t[3]))
    /\ [][\A t \in Buttons :
            (ButtonAt(t).pc \in {"inflight", "listing", "rerunning"}
                /\ ~CommandAnswered(t))
            => rows'[t[1]][t[2]].buttons[t[3]] = ButtonAt(t)]_vars
    /\ \A a \in ActionButtons :
          (<<1, 1, a>> \in Buttons /\ ButtonAt(<<1, 1, a>>).pc = "settled")
          ~> (<<1, 1, a>> \in Buttons /\ IsIdle(ButtonAt(<<1, 1, a>>), a))

\* a re-run command with a partial result has returned to idle
C18_Witness ==
    \E t \in Buttons :
        /\ t[3] = "rerun"
        /\ IsIdle(ButtonAt(t), "rerun")
        /\ ButtonAt(t).clicks = 1
        /\ ButtonAt(t).results = <<TRUE, FALSE>>

\* C19: a re-run command that was given N >= 1 failed or cancelled runs and
\* has settled made N re-run calls; with K of them successful it shows
\* "Re-ran K job(s)" under the success display iff K = N and otherwise
\* "K/N succeeded" under the warning display
C19_PartialResult ==
    \A t \in Buttons :
        LET b == ButtonAt(t)
            n == Cardinality({ j \in DOMAIN b.listed :
                                 b.listed[j].conclusion \in {"failure", "cancelled"} })
            k == Cardinality({ j \in DOMAIN b.results : b.results[j] })
        IN  (t[3] = "rerun" /\ b.pc = "settled" /\ n >= 1) =>
                /\ Len(b.results) = n
                /\ b.calls = n
                /\ k = n <=> (/\ b.text.label \in {"Re-ran job", "Re-ran jobs"}
                              /\ b.text.k = k
                              /\ b.classes = {"success"})
                /\ k # n => (/\ b.text = [label |-> "succeeded", k |-> k, n |-> n]
                             /\ b.classes = {"warning"})

\* three failed runs, the re-run of two of them succeeded
C19_Witness ==
    \E t \in Buttons :
        /\ t[3] = "rerun"
        /\ ButtonAt(t).pc = "settled"
        /\ Len(ButtonAt(t).runs) = 3
        /\ ButtonAt(t).results = <<TRUE, FALSE, TRUE>>
        /\ ButtonAt(t).text = [label |-> "succeeded", k |-> 2, n |-> 3]

----------------------------------------------------------------------------
(* Rate-limit telemetry *)

\* the answer carries telemetry: a remaining and a limit header with a value
Carries(call) ==
    /\ call.api # "none"
    /\ call.status # "network"
    /\ call.headers.remaining.present /\ call.headers.remaining.text # <<>>
    /\ call.headers.limit.present /\ call.headers.limit.text # <<>>

\* the quota shown for the telemetry of an answer
Snapshot(call) ==
    [shown |-> TRUE,
     prefix |-> IF call.type = "graphql" THEN "GraphQL" ELSE "REST",
     remaining |-> parseInt(call.headers.remaining.text),
     limit |-> parseInt(call.headers.limit.text),
     resetString |-> IF call.headers.reset.present /\ call.headers.reset.text # <<>>
                     THEN <<"resets", parseInt(call.headers.reset.text) * 1000>>
                     ELSE <<>>,
     className |-> IF parseInt(call.headers.remaining.text) < 100
                   THEN "rate-limit-low" ELSE "rate-limit-ok"]

\* C13: the telemetry of the call that completed last, whichever method made
\* it and whether it succeeded or failed with an HTTP status, is what the
\* quota of its API kind shows
C13_EveryCallDeliversTelemetry ==
    Carries(lastCall) => rateLimit[lastCall.type] = Snapshot(lastCall)

\* C14: a step that completes a call of some API kind with telemetry makes
\* the quota of that kind show exactly that telemetry, low iff remaining is
\* below 100; every other step leaves the quota of the kind as it is
C14_SnapshotIsLatestTelemetry ==
    [][\A k \in {"graphql", "rest"} :
          rateLimit'[k] =
              IF lastCall' # lastCall /\ lastCall'.type = k /\ Carries(lastCall')
              THEN Snapshot(lastCall')
              ELSE rateLimit[k]]_vars

----------------------------------------------------------------------------
(* Refresh cycles *)

\* rs is the result edges in the order of the sort
IsSortedResult(rs, edges) ==
    /\ Len(rs) = Len(edges)
    /\ \A j \in DOMAIN edges : \E i \in DOMAIN rs : rs[i] = edges[j]
    /\ \A i, j \in DOMAIN rs : i < j => comparePRs(rs[i], rs[j]) <= 0

\* C20: the step that completes a refresh cycle leaves in the table body the
\* rows of that cycle and no others, one per pull request of its bulk result
\* in sorted order (none for an empty result); the rows of every other cycle
\* are as they were
C20_RefreshReplacesTable ==
    [][\A c \in DOMAIN phase :
          (phase[c] \in {"fetching", "fading"} /\ phase'[c] \in {"shown", "nodata"})
          => /\ phase'[c] = "shown" =>
                    /\ tbody' = {c}
                    /\ data'[c] # <<>>
                    /\ IsSortedResult([i \in DOMAIN rows'[c] |-> rows'[c][i].pr],
                                      data'[c])
             /\ phase'[c] = "nodata" => (tbody' = {} /\ data'[c] = <<>>)
             /\ \A d \in DOMAIN phase \ {c} : rows'[d] = rows[d]]_vars

\* the second cycle has replaced the two rows of the first by its own two,
\* which the sort has reordered
C20_Witness ==
    /\ phase = <<"shown", "shown">>
    /\ tbody = {2}
    /\ Len(rows[1]) = 2
    /\ Len(rows[2]) = 2
    /\ data[1] # data[2]
    /\ rows[2][1].pr = data[2][2]
    /\ rows[2][1].pr # data[2][1]

\* the step completes refresh cycle c: its result is written to the table
Completes(c) ==
    /\ phase[c] \in {"fetching", "fading"}
    /\ phase'[c] \in {"shown", "nodata"}

\* C21: a refresh cycle in flight stays in flight, with the organization its
\* query names, until its own answer and its own timer end it, whatever
\* other cycles start meanwhile; the table body changes only in the step
\* that completes a cycle, and then holds the result of that cycle, whatever
\* organization is selected: after two cycles the later write is what shows
C21_LaterWriteWins ==
    [][/\ \A c \in DOMAIN phase :
            /\ phase[c] = "fetching" =>
                   phase'[c] \in {"fetching", "fading", "nodata", "failed"}
            /\ phase[c] = "fading" => phase'[c] \in {"fading", "shown"}
            /\ phase[c] \in {"fetching", "fading"} => request'[c] = request[c]
            /\ Completes(c) => tbody' = (IF data'[c] = <<>> THEN {} ELSE {c})
       /\ tbody' # tbody => \E c \in DOMAIN phase : Completes(c)]_vars

\* the cycle of the page load, for acme, wrote after the cycle that the
\* change to globex started: globex is selected and the rows are acme's
C21_Witness ==
    /\ phase = <<"shown", "shown">>
    /\ request = <<"acme", "globex">>
    /\ organization = "globex"
    /\ url = "globex"
    /\ tbody = {1}

\* C22: the step in which the bulk query of a cycle fails shows an error
\* message and changes neither the table body nor any row nor the no-data
\* message; a failed cycle has no result, no row and so no check-run lookup,
\* and is never rendered
C22_FailedRefreshAborts ==
    /\ [][\A c \in DOMAIN phase :
             (phase[c] = "fetching" /\ phase'[c] = "failed")
             => /\ errorMessage' # Null
                /\ lastCall'.api = "fetchPullRequests"
                /\ lastCall'.status # "ok"
                /\ tbody' = tbody
                /\ rows' = rows
                /\ data' = data
                /\ noPrsMessage' = noPrsMessage]_vars
    /\ [](\A c \in DOMAIN phase :
             phase[c] = "failed"
             => /\ data[c] = <<>>
                /\ rows[c] = <<>>
                /\ Awaiting(c) = {}
                /\ c \notin tbody)

\* the second refresh failed: its error is shown over the two rows of the
\* first, one of which has had its check runs looked up
C22_Witness ==
    /\ phase = <<"shown", "failed">>
    /\ errorMessage = bulkErrorMessage("network")
    /\ tbody = {1}
    /\ Len(rows[1]) = 2
    /\ \E i \in DOMAIN rows[1] : rows[1][i].lookups = 1 /\ rows[1][i].pc = "done"
    /\ rows[2] = <<>>

----------------------------------------------------------------------------
(* Retries *)

\* the remote calls that wait for their answer: the method that made the
\* call, the cycle and row it was made for and, for the re-run of a
\* workflow run, the position of the run among the failed ones
Call(api, c, i, n) == [api |-> api, c |-> c, i |-> i, n |-> n]

PendingCalls ==
    { Call("getUserOrganizations", 0, 0, k) : k \in 1..orgPending }
    \cup { Call("fetchPullRequests", c, 0, 0) : c \in Fetching }
    \cup UNION { { Call("fetchFailedChecks", c, i, 0) : i \in Awaiting(c) } :
                   c \in DOMAIN rows }
    \cup UNION { { Call("markPullRequestReadyForReview", c, i, 0) :
                     i \in InFlight(c, "convert-draft", "inflight") } :
                   c \in DOMAIN rows }
    \cup UNION { { Call("updatePullRequestBranch", c, i, 0) :
                     i \in InFlight(c, "sync", "inflight") } : c \in DOMAIN rows }
    \cup UNION { { Call("fetchWorkflowRuns", c, i, 0) :
                     i \in InFlight(c, "rerun", "listing") } : c \in DOMAIN rows }
    \cup UNION { { Call("rerunFailedJobs", c, i,
                        Len(rows[c][i].buttons["rerun"].results) + 1) :
                     i \in InFlight(c, "rerun", "rerunning") } : c \in DOMAIN rows }

\* C23: the step in which a remote call fails takes that call off the calls
\* in flight, issues no call but the re-run of the next workflow run of the
\* same command, and arms no refresh; so a call that follows a failure is
\* issued by a later step: a page load or a click
C23_NoAutomaticRetry ==
    [][(/\ lastCall' # lastCall \/ PendingCalls \ PendingCalls' # {}
        /\ lastCall'.status # "ok")
       => /\ \E t \in PendingCalls \ PendingCalls' :
               /\ t.api = lastCall'.api
               /\ \A u \in PendingCalls' \ PendingCalls :
                     /\ t.api = "rerunFailedJobs"
                     /\ u = [t EXCEPT !.n = t.n + 1]
          /\ refreshTimers' = refreshTimers]_vars

\* the call of a sync command failed, the button went back to idle and was
\* clicked again: the call in flight is the one the second click issued
C23_Witness ==
    /\ lastCall.api = "updatePullRequestBranch"
    /\ lastCall.status = "network"
    /\ \E i \in DOMAIN rows[1] :
          /\ "sync" \in DOMAIN rows[1][i].buttons
          /\ rows[1][i].buttons["sync"].clicks = 2
          /\ rows[1][i].buttons["sync"].pc = "inflight"
          /\ PendingCalls = {Call("updatePullRequestBranch", 1, i, 0)}

----------------------------------------------------------------------------
(* Status 401 *)

\* C24: when a remote call has been answered with status 401, the message
\* that asks for a valid token is shown
C24_AuthFailureAsksForToken ==
    [][(lastCall' # lastCall /\ lastCall'.status = "auth")
       => errorMessage' = bulkErrorMessage("auth")]_vars

----------------------------------------------------------------------------
(* Staleness *)

\* the day of an instant in the local time zone, counted from the day of
\* hour 0
LocalDay(instant) == (instant + timeZone) \div 24

\* C25: isStale() is true exactly when updatedAt and the current time fall
\* on different days of the local calendar, however many hours lie between
\* them, and a row that is neither blocked nor ready has the class stale-pr
\* exactly then
C25_StaleIsCalendarDay ==
    verdict.done =>
        /\ verdict.isStale <=> (LocalDay(DateParse(pr.updatedAt)) # LocalDay(now))
        /\ (~isBlockedByOther(pr) /\ ~isReadyToBeMerged(pr))
               => (("stale-pr" \in verdict.classList) <=> verdict.isStale)

\* updated in the last hour of a day and looked at in the first hour of the
\* next (in February, where the day of the month starts again): stale
C25_Witness ==
    /\ verdict.done
    /\ timeZone = 0
    /\ pr.updatedAt = [day |-> 0, hour |-> 23]
    /\ now = 24
    /\ verdict.isStale
    /\ verdict.classList = {"stale-pr"}

----------------------------------------------------------------------------
(* Ticket keys *)

\* title starts with "[", nl upper-case letters, "-", nd digits and "]"
StartsWithKey(title, nl, nd) ==
    /\ nl >= 1
    /\ nd >= 1
    /\ Len(title) >= nl + nd + 3
    /\ title[1] = "["
    /\ \A i \in 2..(1 + nl) : title[i] \in {"A", "Z"}
    /\ title[2 + nl] = "-"
    /\ \A i \in (3 + nl)..(2 + nl + nd) : title[i] \in {"1", "9"}
    /\ title[3 + nl + nd] = "]"

\* rest is what follows the first n characters of title and the white
\* space after them
IsRestAfter(rest, title, n) ==
    \E k \in 0..(Len(title) - n) :
        /\ \A i \in (n + 1)..(n + k) : title[i] \in {" ", "\t"}
        /\ rest = SubSeq(title, n + k + 1, Len(title))
        /\ rest = <<>> \/ rest[1] \notin {" ", "\t"}

\* C26: a title that starts with a bracketed key has that key as getJiraKey()
\* and, as getTitleWithoutJira(), what follows the closing bracket and the
\* white space after it; any other title has no key and is returned as it
\* is; so the two titles differ only when there is a key
C26_JiraKey ==
    verdict.done =>
        LET title == pr.title
            Keys == { m \in (1..Len(title)) \X (1..Len(title)) :
                        StartsWithKey(title, m[1], m[2]) }
        IN  /\ \A m \in Keys :
                 /\ ~verdict.jiraKey.isNull
                 /\ verdict.jiraKey.key = SubSeq(title, 2, 2 + m[1] + m[2])
                 /\ IsRestAfter(verdict.titleWithoutJira, title, 3 + m[1] + m[2])
            /\ Keys = {} =>
                 /\ verdict.jiraKey.isNull
                 /\ verdict.titleWithoutJira = title
            /\ verdict.titleWithoutJira # title => ~verdict.jiraKey.isNull

\* "[A-1] \tx" has the key A-1 and the title x
C26_Witness ==
    /\ verdict.done
    /\ pr.title = <<"[", "A", "-", "1", "]", " ", "\t", "x">>
    /\ verdict.jiraKey = [isNull |-> FALSE, key |-> <<"A", "-", "1">>]
    /\ verdict.titleWithoutJira = <<"x">>
    /\ verdict.cell.text = <<"x">>

----------------------------------------------------------------------------
(* Change of organization *)

\* C27: a step that changes the organization of the URL, or starts a refresh
\* cycle, starts exactly one cycle, and the organization that its bulk query
\* names is the organization of the URL and of the dashboard after the step
C27_ChangeStartsOneRefresh ==
    [][(\/ url' # url
        \/ \E c \in DOMAIN phase : phase[c] = "idle" /\ phase'[c] # "idle")
       => \E c \in DOMAIN phase :
             /\ phase[c] = "idle"
             /\ phase'[c] = "fetching"
             /\ request'[c] = url'
             /\ organization' = url'
             /\ \A d \in DOMAIN phase \ {c} :
                   phase'[d] = phase[d] /\ request'[d] = request[d]]_vars

\* the change from acme to globex, while the first cycle waits for acme's
\* pull requests: the second cycle asks for globex's
C27_Witness ==
    /\ url = "globex"
    /\ organization = "globex"
    /\ phase = <<"fetching", "fetching">>
    /\ request = <<"acme", "globex">>

----------------------------------------------------------------------------
(* Refresh after a command *)

\* C28: the step in which a command settles arms one refresh of the list
\* when the command succeeded (the button shows the success display), and
\* none when it did not
C28_SuccessTriggersRefresh ==
    [][\A t \in Buttons :
          (/\ ButtonAt(t).pc # "settled"
           /\ rows'[t[1]][t[2]].buttons[t[3]].pc = "settled")
          => refreshTimers' =
                IF "success" \in rows'[t[1]][t[2]].buttons[t[3]].classes
                THEN refreshTimers + 1
                ELSE refreshTimers]_vars

----------------------------------------------------------------------------
(* Order of the failed checks *)

\* the place of a displayed check name in the alphabet: the names that
\* fetchFailedChecks can return begin with "build", "ci:" or "lint"
AlphabeticalRank(name) ==
    CHOOSE k \in 1..3 : <<"build", "ci:", "lint">>[k] = name[1]

\* C29: the failed checks of a row are in alphabetical order of their names
C29_FailedChecksSorted ==
    \A c \in DOMAIN rows : \A i \in DOMAIN rows[c] :
        \A j, k \in DOMAIN rows[c][i].failedChecks :
            j < k => AlphabeticalRank(rows[c][i].failedChecks[j].name)
                         <= AlphabeticalRank(rows[c][i].failedChecks[k].name)

----------------------------------------------------------------------------
(* The re-run command *)

RerunButtons == { t \in Buttons : t[3] = "rerun" }

\* runs is the failed and cancelled workflow runs of listed, in its order
\* (the id of a run is its position in the list)
IsFailedOf(runs, listed) ==
    /\ \A k \in DOMAIN runs :
          /\ runs[k].id \in DOMAIN listed
          /\ listed[runs[k].id] = runs[k]
          /\ runs[k].conclusion \in {"failure", "cancelled"}
    /\ \A j, k \in DOMAIN runs : j < k => runs[j].id < runs[k].id
    /\ \A n \in DOMAIN listed :
          listed[n].conclusion \in {"failure", "cancelled"}
              => \E k \in DOMAIN runs : runs[k].id = n

\* C30: no re-run is requested while the list of workflow runs is awaited;
\* the runs to re-run are the failed and cancelled ones of the list, in its
\* order; while the command re-runs, the request in flight is the one for
\* the run after the runs already answered, so each request follows the
\* answer to the one before; and when the command is over one request has
\* been made for each of these runs, failed requests included
C30_SequentialReruns ==
    \A t \in RerunButtons :
        LET b == ButtonAt(t)
        IN  /\ IsFailedOf(b.runs, b.listed)
            /\ b.pc = "listing" =>
                   (b.calls = 0 /\ b.listed = <<>> /\ b.results = <<>>)
            /\ b.pc = "rerunning" =>
                   /\ b.calls = Len(b.results) + 1
                   /\ b.calls <= Len(b.runs)
            /\ b.pc \in {"settled", "idle"} =>
                   /\ b.calls = Len(b.runs)
                   /\ Len(b.results) = Len(b.runs)

\* of the runs failure, success, cancelled the first and the third were
\* re-run, and the third although the re-run of the first had failed
C30_Witness ==
    \E t \in RerunButtons :
        LET b == ButtonAt(t)
        IN  /\ b.pc = "settled"
            /\ Len(b.listed) = 3
            /\ b.listed[1].conclusion = "failure"
            /\ b.listed[2].conclusion = "success"
            /\ b.listed[3].conclusion = "cancelled"
            /\ b.runs = <<b.listed[1], b.listed[3]>>
            /\ b.calls = 2
            /\ b.results = <<FALSE, TRUE>>

\* SpecVariants: one record with its review list and its assignees, and the
\* predicates of both classes PullRequest on it. The review decision is
\* drawn independently of the list: the service derives it from the branch
\* protection rules, and the query asks for the first ten reviews only
VariantRecords ==
    { [number |-> 0, isDraft |-> d, mergeable |-> mg, mergeStateStatus |-> "CLEAN",
       reviewDecision |-> r, updatedAt |-> [day |-> 0, hour |-> 0],
       commits |-> OneCommit("SUCCESS"), assignees |-> as, reviews |-> rv] :
        d \in BOOLEAN,
        mg \in {"MERGEABLE", "CONFLICTING"},
        r \in {"APPROVED", "CHANGES_REQUESTED", "REVIEW_REQUIRED", Null},
        as \in {<<>>, <<"alice">>},
        rv \in UNION { [1..k -> [state : {"APPROVED", "CHANGES_REQUESTED",
                                          "COMMENTED"},
                                 author : {"alice", "bob"}]] :
                        k \in 0..MaxReviews } }

InitRecord(records) ==
    /\ pr \in records
    /\ verdict = [done |-> FALSE]
    /\ timeZone = 0
    /\ InitDashboard(1)
    /\ now = 0
    /\ orgsCache = cacheEntry(<<"acme">>, 0)

ClassifyVariants ==
    /\ ~verdict.done
    /\ verdict' = [done |-> TRUE,
                   hasBeenApproved |-> hasBeenApproved(pr),
                   hasChangesRequested |-> hasChangesRequested(pr),
                   waitingForReview |-> waitingForReview(pr),
                   isReadyToBeMerged |-> isReadyToBeMerged(pr),
                   isBlockedByOther |-> isBlockedByOther(pr),
                   script |->
                      [hasBeenApproved |-> hasBeenApproved_script(pr),
                       hasChangesRequested |-> hasChangesRequested_script(pr),
                       waitingForReview |-> waitingForReview_script(pr),
                       isReadyToBeMerged |-> isReadyToBeMerged_script(pr),
                       isBlockedByOther |-> isBlockedByOther_script(pr)]]
    /\ UNCHANGED <<pr, timeZone, authVars, dashVars, quotaVars, orgVars>>

SpecVariants == InitRecord(VariantRecords) /\ [][ClassifyVariants]_vars

\* SpecBuckets: three records of a batch, the predicates of both classes
\* on each and both comparators on every pair of them. The records differ
\* in the timestamp and in the reviews: approved by a reviewer, approved by
\* the assignee only, no review with and without a required review, changes
\* requested; one more is an approved draft
BucketRecords ==
    { [number |-> 0, isDraft |-> sh[1] = "DRAFT", mergeable |-> "MERGEABLE",
       mergeStateStatus |-> "CLEAN",
       reviewDecision |-> IF sh[1] = "DRAFT" THEN "APPROVED" ELSE sh[1],
       updatedAt |-> t,
       commits |-> OneCommit("SUCCESS"), assignees |-> <<"alice">>,
       reviews |-> sh[2]] :
        sh \in { <<"APPROVED", <<[state |-> "APPROVED", author |-> "bob"]>> >>,
                 <<"APPROVED", <<[state |-> "APPROVED", author |-> "alice"]>> >>,
                 <<"REVIEW_REQUIRED", <<>> >>,
                 <<Null, <<>> >>,
                 <<"CHANGES_REQUESTED",
                   <<[state |-> "CHANGES_REQUESTED", author |-> "bob"]>> >>,
                 <<"DRAFT", <<[state |-> "APPROVED", author |-> "bob"]>> >> },
        t \in Timestamps }

\* pullRequests.sort((a, b) => ...) calls the comparator on pairs of the
\* batch: here on every pair of pr, b and c, with the predicates of both
\* classes on each of the three
Compare(b, c) ==
    /\ ~verdict.done
    /\ LET batch == <<pr, b, c>>
       IN  verdict' =
              [done |-> TRUE, batch |-> batch,
               buckets |->
                  [i \in 1..3 |->
                      [isReadyToBeMerged |-> isReadyToBeMerged(batch[i]),
                       isBlockedByOther |-> isBlockedByOther(batch[i]),
                       script |->
                          [isReadyToBeMerged |-> isReadyToBeMerged_script(batch[i]),
                           isBlockedByOther |-> isBlockedByOther_script(batch[i])]]],
               compare |-> [i \in 1..3 |-> [j \in 1..3 |->
                              comparePRs(batch[i], batch[j])]],
               script |-> [i \in 1..3 |-> [j \in 1..3 |->
                              comparePRs_script(batch[i], batch[j])]]]
    /\ UNCHANGED <<pr, timeZone, authVars, dashVars, quotaVars, orgVars>>

NextBuckets == \E b, c \in BucketRecords : Compare(b, c)

SpecBuckets == InitRecord(BucketRecords) /\ [][NextBuckets]_vars

----------------------------------------------------------------------------
(* The enrichments of a batch are independent of each other *)

FinalFailureTexts == {"Failed", "boom Error"}

\* row i of cycle c shows the rendering it was created with
IsLoading(c, i) ==
    /\ i \in DOMAIN rows[c]
    /\ rows[c][i].ciText = "Loading..."

\* C31: the step in which the check-run request of a row is answered writes
\* the final CI status of that row and of no other row, whatever the other
\* rows of the batch are waiting for; and a row that waits for its answer
\* leaves the loading state once the answer has come
C31_ShownWhenOwnLookupCompletes ==
    /\ [][\A c \in DOMAIN rows : \A i \in DOMAIN rows[c] :
            (/\ rows[c][i].pc = "awaiting"
             /\ i \in DOMAIN rows'[c]
             /\ rows'[c][i] # rows[c][i])
            => /\ rows'[c][i].pc = "done"
               /\ rows'[c][i].ciText \in FinalFailureTexts
               /\ \A j \in DOMAIN rows[c] \ {i} : rows'[c][j] = rows[c][j]]_vars
    /\ [](\A c \in DOMAIN rows : \A i \in DOMAIN rows[c] :
            IsLoading(c, i) <=> rows[c][i].pc \in {"new", "awaiting"})
    /\ \A c \in 1..1 : \A i \in 1..(MaxRows + 1) :
          (i \in DOMAIN rows[c] /\ rows[c][i].pc = "awaiting")
              ~> (i \in DOMAIN rows[c] /\ rows[c][i].pc = "done"
                                       /\ ~IsLoading(c, i))

\* the first row shows that its commit failed while the second row of the
\* same batch, in the table, still loads
C31_Witness ==
    \E c \in DOMAIN rows :
        /\ tbody = {c}
        /\ Len(rows[c]) >= 2
        /\ rows[c][1].pc = "done"
        /\ rows[c][1].response.kind # "none"
        /\ rows[c][1].ciText \in FinalFailureTexts
        /\ rows[c][2].pc = "awaiting"
        /\ IsLoading(c, 2)

----------------------------------------------------------------------------
(* The two classes PullRequest *)

\* the sort bucket that the comparator puts a record in
SortBucket(ready, blocked) ==
    IF ready THEN "ready" ELSE IF blocked THEN "blocked" ELSE "neither"

\* every approving review of the record is by one of its assignees
OnlySelfApproved(p) ==
    \A k \in DOMAIN p.reviews :
        p.reviews[k].state = "APPROVED" =>
            \E a \in DOMAIN p.assignees : p.assignees[a] = p.reviews[k].author

\* C32: on a record whose review decision is APPROVED and whose approving
\* reviews are all by its assignees, hasBeenApproved is true in the class
\* that reads the review decision and false in the class that reads the
\* review list; when the record is no draft and mergeable the first class
\* finds it ready to be merged, the second does not, and the two sort
\* buckets differ
C32_VariantsDiffer ==
    (/\ verdict.done
     /\ pr.reviewDecision = "APPROVED"
     /\ OnlySelfApproved(pr))
    => /\ verdict.hasBeenApproved
       /\ ~verdict.script.hasBeenApproved
       /\ (~pr.isDraft /\ pr.mergeable = "MERGEABLE") =>
             /\ verdict.isReadyToBeMerged
             /\ ~verdict.script.isReadyToBeMerged
             /\ SortBucket(verdict.isReadyToBeMerged, verdict.isBlockedByOther)
                  # SortBucket(verdict.script.isReadyToBeMerged,
                               verdict.script.isBlockedByOther)

\* the only review is the approval of the assignee alice, the service says
\* APPROVED: ready to be merged for one class, blocked by other for the other
C32_Witness ==
    /\ verdict.done
    /\ pr.reviewDecision = "APPROVED"
    /\ pr.assignees = <<"alice">>
    /\ pr.reviews = <<[state |-> "APPROVED", author |-> "alice"]>>
    /\ ~pr.isDraft
    /\ pr.mergeable = "MERGEABLE"
    /\ verdict.isReadyToBeMerged
    /\ ~verdict.isBlockedByOther
    /\ ~verdict.script.isReadyToBeMerged
    /\ verdict.script.isBlockedByOther

----------------------------------------------------------------------------
(* The sort buckets and the comparator *)

Sign(x) == IF x < 0 THEN -1 ELSE IF x > 0 THEN 1 ELSE 0

\* the place of a bucket in the table: ready first, blocked by other last
BucketRank(ready, blocked) ==
    IF ready THEN 0 ELSE IF blocked THEN 2 ELSE 1

\* the comparator results cmp order three records as a total preorder, the
\* one of the keys (rank, instant)
IsTotalPreorder(cmp, rank, batch) ==
    /\ \A i, j \in 1..3 : Sign(cmp[i][j]) = -Sign(cmp[j][i])
    /\ \A i, j, k \in 1..3 :
          (cmp[i][j] <= 0 /\ cmp[j][k] <= 0) => cmp[i][k] <= 0
    /\ \A i, j \in 1..3 :
          Sign(cmp[i][j]) =
              IF rank[i] # rank[j] THEN Sign(rank[i] - rank[j])
              ELSE Sign(DateParse(batch[i].updatedAt)
                          - DateParse(batch[j].updatedAt))

\* C33: no record is both ready to be merged and blocked by other, in
\* either class, so each record has one of the three buckets; and the
\* comparator of each class is antisymmetric in sign and transitive on the
\* records of a batch: it orders them by bucket, then by instant
C33_BucketsExclusive ==
    verdict.done =>
        /\ \A i \in 1..3 :
              /\ ~(verdict.buckets[i].isReadyToBeMerged
                     /\ verdict.buckets[i].isBlockedByOther)
              /\ ~(verdict.buckets[i].script.isReadyToBeMerged
                     /\ verdict.buckets[i].script.isBlockedByOther)
        /\ IsTotalPreorder(verdict.compare,
                           [i \in 1..3 |->
                               BucketRank(verdict.buckets[i].isReadyToBeMerged,
                                          verdict.buckets[i].isBlockedByOther)],
                           verdict.batch)
        /\ IsTotalPreorder(verdict.script,
                           [i \in 1..3 |->
                               BucketRank(verdict.buckets[i].script.isReadyToBeMerged,
                                          verdict.buckets[i].script.isBlockedByOther)],
                           verdict.batch)

\* a batch with one record of each bucket, given as blocked, neither,
\* ready: the comparator puts the third before the second before the first
C33_Witness ==
    /\ verdict.done
    /\ verdict.buckets[1].isBlockedByOther
    /\ ~verdict.buckets[2].isReadyToBeMerged
    /\ ~verdict.buckets[2].isBlockedByOther
    /\ verdict.buckets[3].isReadyToBeMerged
    /\ verdict.compare[3][2] < 0
    /\ verdict.compare[2][1] < 0
    /\ verdict.compare[3][1] < 0
    /\ verdict.compare[1][3] > 0

----------------------------------------------------------------------------
(* The stored token *)

\* C34: when validateToken has returned, with either result, the store
\* holds the token that it held when the call was made (none when it held
\* none)
C34_ValidationLeavesStore ==
    validation.pc = "returned" => githubToken = validation.originalToken

----------------------------------------------------------------------------
(* Enrichments that outlive their table *)

\* the rows of all cycles whose check-run request was answered with kind
AnsweredWith(kind) ==
    { t \in UNION { {c} \X DOMAIN rows[c] : c \in DOMAIN rows } :
        rows[t[1]][t[2]].response.kind = kind }

\* C35: the step in which the check-run request of a row of cycle c is
\* answered writes that row, which keeps its pull request, and changes
\* neither a row of another cycle nor the table body, whichever cycle the
\* table body holds; and the rows of a cycle are the rows of its own
\* result, in its sort order
C35_EnrichmentWritesOwnRow ==
    /\ [][\A c \in DOMAIN rows : \A i \in DOMAIN rows[c] :
            (/\ rows[c][i].pc = "awaiting"
             /\ i \in DOMAIN rows'[c]
             /\ rows'[c][i].pc = "done")
            => /\ rows'[c][i].pr = rows[c][i].pr
               /\ \A d \in DOMAIN rows \ {c} : rows'[d] = rows[d]
               /\ \A j \in DOMAIN rows[c] \ {i} : rows'[c][j] = rows[c][j]
               /\ tbody' = tbody]_vars
    /\ [](\A c \in DOMAIN rows : \A i \in DOMAIN rows[c] :
            /\ rows[c][i].pr \in { data[c][k] : k \in DOMAIN data[c] }
            /\ rows[c][i].response.kind \notin {"none", "ok"} =>
                   rows[c][i].failedChecks = <<>>)

\* the table holds the rows of the second cycle, one of which shows its
\* failed check; the request of the first cycle's row failed, and it was
\* the last request of all to be answered: its row shows no failed check,
\* and the row in the table is as its own answer left it
C35_Witness ==
    /\ DOMAIN rows = {1, 2}
    /\ phase[1] = "shown"
    /\ phase[2] = "shown"
    /\ tbody = {2}
    /\ lastCall.api = "fetchFailedChecks"
    /\ lastCall.status = "http"
    /\ AnsweredWith("http") = {<<1, 1>>}
    /\ rows[1][1].failedChecks = <<>>
    /\ \E j \in DOMAIN rows[2] :
          /\ rows[2][j].pr = [rows[1][1].pr EXCEPT !.number = rows[2][j].pr.number]
          /\ rows[2][j].pc = "done"
          /\ rows[2][j].response.kind = "ok"
          /\ Len(rows[2][j].failedChecks) = 1
          /\ "rerun" \in rows[2][j].actions

----------------------------------------------------------------------------
(* The no-data message *)

\* the <tr> elements that the table body holds
RenderedRows ==
    UNION { {c} \X DOMAIN rows[c] : c \in tbody }

\* C36: while the 'no pull requests' message is displayed the table body
\* holds no row
C36_NoDataMeansNoRows ==
    noPrsMessage => RenderedRows = {}

----------------------------------------------------------------------------
(* What the organization cache holds *)

\* C37: an entry is written to the cache only in the step in which a
\* /user/orgs request is answered with a list, and it holds that list; the
\* step in which such a request fails leaves the cache as it is; and a call
\* made after a failure, with nothing in the cache, sends a request
C37_CacheHoldsFetchedLists ==
    [][/\ (orgsCache' # orgsCache /\ orgsCache'.present) =>
             /\ orgPending' = orgPending - 1
             /\ lastCall'.api = "getUserOrganizations"
             /\ lastCall'.status = "ok"
             /\ orgLast'.kind = "fetched"
             /\ JSONparse(orgsCache'.text).organizations = orgLast'.organizations
       /\ (orgPending' = orgPending - 1 /\ orgLast'.kind = "failed") =>
             orgsCache' = orgsCache
       /\ (/\ orgLast.kind = "failed"
           /\ ~orgsCache.present
           /\ orgLast'.kind \in {"hit", "miss"}) =>
             /\ orgLast'.kind = "miss"
             /\ orgPending' = orgPending + 1]_vars

\* the only request so far failed and left no entry; the call that
\* followed found none and its request is in flight
C37_Witness ==
    /\ ~orgsCache.present
    /\ lastCall.api = "getUserOrganizations"
    /\ lastCall.status # "ok"
    /\ orgLast.kind = "miss"
    /\ ~orgLast.found
    /\ orgPending = 1

----------------------------------------------------------------------------
(* When a row offers its actions *)

\* C38: a row whose enrichment has not completed shows the loading badge and
\* offers no action; the actions of a row change only in the step that
\* completes its enrichment and sets its CI status; and once it has
\* completed a draft offers 'Draft => Open' and a pull request behind its
\* base offers 'Sync'
C38_ActionsComeWithCIStatus ==
    /\ [](\A c \in DOMAIN rows : \A i \in DOMAIN rows[c] :
            LET row == rows[c][i]
            IN  /\ row.pc \in {"new", "awaiting"} =>
                      /\ row.actions = {}
                      /\ row.buttons = <<>>
                      /\ row.ciText = "Loading..."
                /\ row.pc = "done" =>
                      /\ row.pr.isDraft => "convert-draft" \in row.actions
                      /\ row.pr.mergeStateStatus = "BEHIND" => "sync" \in row.actions)
    /\ [][\A c \in DOMAIN rows : \A i \in DOMAIN rows[c] :
            (i \in DOMAIN rows'[c] /\ rows'[c][i].actions # rows[c][i].actions)
            => /\ rows[c][i].pc \in {"new", "awaiting"}
               /\ rows'[c][i].pc = "done"
               /\ rows[c][i].ciText = "Loading..."
               /\ rows'[c][i].ciText # "Loading..."]_vars

\* two drafts behind their base whose commits failed are in the table: the
\* one whose check runs have been answered offers both actions, the other
\* still waits and offers none
C38_Witness ==
    \E c \in tbody : \E i, j \in DOMAIN rows[c] :
        /\ rows[c][i].pr.isDraft
        /\ rows[c][i].pr.mergeStateStatus = "BEHIND"
        /\ rows[c][i].pc = "awaiting"
        /\ rows[c][i].actions = {}
        /\ rows[c][j].pr.isDraft
        /\ rows[c][j].pr.mergeStateStatus = "BEHIND"
        /\ rows[c][j].pc = "done"
        /\ rows[c][j].response.kind # "none"
        /\ {"convert-draft", "sync"} \subseteq rows[c][j].actions

----------------------------------------------------------------------------
(* A re-run command whose list of workflow runs failed *)

\* what the user sees of a button
Appearance(b) == [text |-> b.text, classes |-> b.classes, disabled |-> b.disabled]

NoFailedJobs ==
    [text |-> Text("No Failed Jobs"), classes |-> {"success"}, disabled |-> TRUE]

\* C39: the step that answers the workflow-run request of a re-run command
\* with a failure, like the one that answers it with a list that has no
\* failed and no cancelled run, ends the command: no re-run is requested,
\* and the button shows 'No Failed Jobs' in the success style, the same in
\* both cases, and not the error style
C39_FailedListLooksEmpty ==
    [][\A t \in RerunButtons :
          LET b == ButtonAt(t)
              after == rows'[t[1]][t[2]].buttons["rerun"]
          IN  (/\ b.pc = "listing"
               /\ t[2] \in DOMAIN rows'[t[1]]
               /\ "rerun" \in DOMAIN rows'[t[1]][t[2]].buttons
               /\ after.pc # "listing"
               /\ \/ lastCall'.status # "ok"
                  \/ \A k \in DOMAIN after.listed :
                        after.listed[k].conclusion \notin {"failure", "cancelled"})
              => /\ lastCall'.api = "fetchWorkflowRuns"
                 /\ after.pc = "settled"
                 /\ after.timer = "rerunNone"
                 /\ after.calls = 0
                 /\ after.runs = <<>>
                 /\ Appearance(after) = NoFailedJobs
                 /\ "error" \notin after.classes]_vars

\* the workflow-run request was the last request to be answered and it
\* failed; the command is over and its button says 'No Failed Jobs'
C39_Witness ==
    \E t \in RerunButtons :
        /\ lastCall.api = "fetchWorkflowRuns"
        /\ lastCall.status \in {"http", "network"}
        /\ ButtonAt(t).pc = "settled"
        /\ ButtonAt(t).calls = 0
        /\ ButtonAt(t).listed = <<>>
        /\ Appearance(ButtonAt(t)) = NoFailedJobs

----------------------------------------------------------------------------
(* Commands in flight across renderings *)

\* the buttons of command a on pull request p, in the table or detached
\* from it, whose remote call has not settled
InvocationsInFlight(p, a) ==
    { t \in Buttons :
        /\ t[3] = a
        /\ rows[t[1]][t[2]].pr = p
        /\ ButtonAt(t).pc \in {"inflight", "listing", "rerunning"} }

\* C40: of each command, at most one invocation on a pull request is in
\* flight
C40_OneInvocationInFlight ==
    \A t \in Buttons :
        Cardinality(InvocationsInFlight(rows[t[1]][t[2]].pr, t[3])) <= 1

============================================================================
